---- MODULE Spec2Model ----
(***************************************************************************)
(* Self-adaptive MQTT publisher: the broker registry (BrokerListManager),  *)
(* the session manager (SelfAdaptiveMqttManager) with its offline queue,   *)
(* and the threads that drive them.                                        *)
(*                                                                         *)
(* Units.  latency is in ms, bandwidth in kB/s (1000 bytes/s),             *)
(* connection_count is a count.  A score is held in units of 1/10000, a    *)
(* weight in tenths and a normalised component in thousandths, so that the *)
(* arithmetic of BrokerInfo::update_score is exact on the values used.     *)
(***************************************************************************)
EXTENDS Integers, Sequences, FiniteSets, TLC

\* ------------------------------------------------------------------ bounds

\* Number of publish() calls the publishing thread makes in one behaviour.
MaxPublishes == 3

\* MAX_QUEUE_SIZE of the manager, scaled down from 1000 so that the queue
\* fills and overflows within MaxPublishes publishes.
MAX_QUEUE_SIZE == 2

\* Number of environment events (a broker going down or coming up, the link
\* of the active client breaking) in one behaviour.
MaxEnvEvents == 2

\* Number of monitor ticks that take measurements in one behaviour.
MaxTicks == 1

\* ------------------------------------------------------- program constants

URIs == {"A", "B", "C"}

LATENCY_BASELINE == 100
BANDWIDTH_BASELINE == 1000
CONNECTION_BASELINE == 100
SWITCH_THRESHOLD == 1000

CATEGORY_WEIGHTS ==
    [ sensor    |-> [latency |-> 6, bandwidth |-> 2, connection |-> 2],
      camera    |-> [latency |-> 2, bandwidth |-> 6, connection |-> 2],
      meter     |-> [latency |-> 6, bandwidth |-> 2, connection |-> 2],
      light     |-> [latency |-> 6, bandwidth |-> 2, connection |-> 2],
      appliance |-> [latency |-> 6, bandwidth |-> 2, connection |-> 2],
      wearable  |-> [latency |-> 3, bandwidth |-> 4, connection |-> 3],
      beacon    |-> [latency |-> 6, bandwidth |-> 2, connection |-> 2],
      traffic   |-> [latency |-> 4, bandwidth |-> 2, connection |-> 4],
      drone     |-> [latency |-> 3, bandwidth |-> 5, connection |-> 2],
      rfid      |-> [latency |-> 3, bandwidth |-> 2, connection |-> 5],
      signage   |-> [latency |-> 2, bandwidth |-> 6, connection |-> 2] ]

\* ------------------------------------------------------------------ helpers

Max(a, b) == IF a >= b THEN a ELSE b
Min(a, b) == IF a <= b THEN a ELSE b

\* The positions of a sequence whose element satisfies uri = u.
IndexOfUri(bs, u) == {i \in 1..Len(bs) : bs[i].uri = u}

\* A sequence without its k-th element (std::vector::erase).
Erase(s, k) == [j \in 1..(Len(s) - 1) |-> IF j < k THEN s[j] ELSE s[j + 1]]

\* ------------------------------------------------- BrokerInfo, the registry

BrokerInfo(uri) ==
    [uri |-> uri, latency |-> 0, bandwidth |-> 0, connection_count |-> 0,
     score |-> 0, is_available |-> TRUE]

\* Variant of WeightsOf: an unknown category takes the weights of "camera".
WeightsOf_unknown_as_camera(category) ==
    IF category \in DOMAIN CATEGORY_WEIGHTS
        THEN CATEGORY_WEIGHTS[category]
        ELSE CATEGORY_WEIGHTS["camera"]

\* ScoreWeights of a category; an unknown category takes those of "sensor".
WeightsOf(category) ==
    IF category \in DOMAIN CATEGORY_WEIGHTS
        THEN CATEGORY_WEIGHTS[category]
        ELSE CATEGORY_WEIGHTS["sensor"]

\* Variant of update_score: the score of an unavailable record is not reset.
update_score_keeps_unavailable(b, weights) ==
    LET latency_score ==
            IF b.latency > 0
                THEN Max(0, 1000 - (b.latency * 1000) \div LATENCY_BASELINE)
                ELSE 0
        bandwidth_score ==
            IF b.bandwidth > 0
                THEN Min(1000, (b.bandwidth * 1000) \div BANDWIDTH_BASELINE)
                ELSE 0
        connection_score ==
            IF b.connection_count > 0
                THEN Max(0, 1000 - (b.connection_count * 1000) \div CONNECTION_BASELINE)
                ELSE 0
    IN  [b EXCEPT !.score = latency_score * weights.latency
                            + bandwidth_score * weights.bandwidth
                            + connection_score * weights.connection]

\* BrokerInfo::update_score: the record with its score recomputed.
update_score(b, weights) ==
    LET latency_score ==
            IF b.latency > 0
                THEN Max(0, 1000 - (b.latency * 1000) \div LATENCY_BASELINE)
                ELSE 0
        bandwidth_score ==
            IF b.bandwidth > 0
                THEN Min(1000, (b.bandwidth * 1000) \div BANDWIDTH_BASELINE)
                ELSE 0
        connection_score ==
            IF b.connection_count > 0
                THEN Max(0, 1000 - (b.connection_count * 1000) \div CONNECTION_BASELINE)
                ELSE 0
        weighted == latency_score * weights.latency
                    + bandwidth_score * weights.bandwidth
                    + connection_score * weights.connection
    IN  [b EXCEPT !.score = IF b.is_available THEN weighted ELSE 0]

\* A registry value is the pair (brokers, index): brokers_ and
\* current_broker_index_ (0-based, as in the source).
Registry(bs, idx) == [brokers |-> bs, index |-> idx]

\* Variant of add_broker: the new record always becomes the current one.
add_broker_makes_current(bs, idx, uri) ==
    IF IndexOfUri(bs, uri) # {}
        THEN Registry(bs, idx)
        ELSE Registry(Append(bs, BrokerInfo(uri)), Len(bs))

\* Variant of add_broker: no test for a URI that is already present.
add_broker_allows_duplicates(bs, idx, uri) ==
    Registry(Append(bs, BrokerInfo(uri)), IF Len(bs) + 1 = 1 THEN 0 ELSE idx)

add_broker(bs, idx, uri) ==
    IF IndexOfUri(bs, uri) # {}
        THEN Registry(bs, idx)
        ELSE Registry(Append(bs, BrokerInfo(uri)),
                      IF Len(bs) + 1 = 1 THEN 0 ELSE idx)

\* Variant of remove_broker: the current index is never moved.
remove_broker_keeps_index(bs, idx, uri) ==
    IF IndexOfUri(bs, uri) = {}
        THEN Registry(bs, idx)
        ELSE Registry(Erase(bs, CHOOSE i \in IndexOfUri(bs, uri) : TRUE), idx)

remove_broker(bs, idx, uri) ==
    IF IndexOfUri(bs, uri) = {}
        THEN Registry(bs, idx)
        ELSE LET k == CHOOSE i \in IndexOfUri(bs, uri) :
                          \A j \in IndexOfUri(bs, uri) : i <= j
                 removed_index == k - 1
                 rest == Erase(bs, k)
             IN  IF removed_index = idx
                     THEN IF Len(rest) = 0 THEN Registry(rest, 0)
                          ELSE IF idx >= Len(rest)
                                   THEN Registry(rest, Len(rest) - 1)
                                   ELSE Registry(rest, idx)
                     ELSE IF removed_index < idx
                              THEN Registry(rest, idx - 1)
                              ELSE Registry(rest, idx)

clear_brokers == Registry(<<>>, 0)

\* The loop of set_brokers of the manager: one add_broker per element.
RECURSIVE AddAll(_, _)
AddAll(r, uris) ==
    IF uris = <<>> THEN r
    ELSE AddAll(add_broker(r.brokers, r.index, Head(uris)), Tail(uris))

\* Variant of set_brokers: the registry is not cleared first.
set_brokers_keeps_old(bs, idx, uris) == AddAll(Registry(bs, idx), uris)

\* set_brokers of the manager on a registry value: clear_brokers, then the
\* loop of add_broker.
set_brokers(bs, idx, uris) == AddAll(clear_brokers, uris)

get_broker_uris(bs) == [i \in 1..Len(bs) |-> bs[i].uri]

\* get_current_broker: the position (1-based) of the current record, 0 for
\* nullptr.
get_current_broker(bs, idx) ==
    IF Len(bs) = 0 \/ idx >= Len(bs) THEN 0 ELSE idx + 1

get_current_broker_uri(bs, idx) ==
    IF get_current_broker(bs, idx) = 0 THEN ""
    ELSE bs[get_current_broker(bs, idx)].uri

\* Variant of set_current_broker: the index is left as it was.
set_current_broker_unchanged(bs, idx, uri) == idx

\* set_current_broker: the new index; unchanged when the URI is absent.
set_current_broker(bs, idx, uri) ==
    IF IndexOfUri(bs, uri) = {} THEN idx
    ELSE (CHOOSE i \in IndexOfUri(bs, uri) :
              \A j \in IndexOfUri(bs, uri) : i <= j) - 1

\* find_best_broker: the loop over brokers_ keeping the first record whose
\* score is strictly greater than the best so far (-1 at the start); the
\* position (1-based) of the result, 0 for nullptr.
RECURSIVE BestFrom(_, _, _, _)
BestFrom(bs, i, best, best_score) ==
    IF i > Len(bs) THEN best
    ELSE IF bs[i].is_available /\ bs[i].score > best_score
             THEN BestFrom(bs, i + 1, i, bs[i].score)
             ELSE BestFrom(bs, i + 1, best, best_score)

\* Variant of find_best_broker: among records of equal score the loop keeps
\* the last one.
RECURSIVE BestFromLastTie(_, _, _, _)
BestFromLastTie(bs, i, best, best_score) ==
    IF i > Len(bs) THEN best
    ELSE IF bs[i].is_available /\ bs[i].score >= best_score
             THEN BestFromLastTie(bs, i + 1, i, bs[i].score)
             ELSE BestFromLastTie(bs, i + 1, best, best_score)

find_best_broker_last_tie(bs) == BestFromLastTie(bs, 1, 0, -1)

find_best_broker(bs) == BestFrom(bs, 1, 0, -1)

\* The comparison should_switch_broker makes once it holds the two records.
SwitchTest(cur_uri, cur_score, best_uri, best_score) ==
    /\ cur_uri # best_uri
    /\ best_score - cur_score > SWITCH_THRESHOLD

\* should_switch_broker evaluated on one registry value.
should_switch_broker(bs, idx) ==
    LET c == get_current_broker(bs, idx)
        b == find_best_broker(bs)
    IN  /\ c # 0
        /\ b # 0
        /\ SwitchTest(bs[c].uri, bs[c].score, bs[b].uri, bs[b].score)

update_broker_metrics(bs, category, uri, latency, bandwidth, connection_count) ==
    [i \in 1..Len(bs) |->
        IF bs[i].uri = uri
            THEN update_score([bs[i] EXCEPT !.latency = latency,
                                            !.bandwidth = bandwidth,
                                            !.connection_count = connection_count],
                              WeightsOf(category))
            ELSE bs[i]]

mark_broker_unavailable(bs, uri) ==
    [i \in 1..Len(bs) |->
        IF bs[i].uri = uri
            THEN [bs[i] EXCEPT !.is_available = FALSE, !.score = 0]
            ELSE bs[i]]

mark_broker_available(bs, category, uri) ==
    [i \in 1..Len(bs) |->
        IF bs[i].uri = uri
            THEN update_score([bs[i] EXCEPT !.is_available = TRUE],
                              WeightsOf(category))
            ELSE bs[i]]

\* The URIs of the available records in registration order: the loop that
\* connect, switch_to_best_broker and handle_connection_failure run over
\* get_all_brokers().
RECURSIVE AvailableFrom(_, _)
AvailableFrom(bs, i) ==
    IF i > Len(bs) THEN <<>>
    ELSE IF bs[i].is_available
             THEN <<bs[i].uri>> \o AvailableFrom(bs, i + 1)
             ELSE AvailableFrom(bs, i + 1)

AvailableUris(bs) == AvailableFrom(bs, 1)


\* -------------------------------------------------------------------- state

VARIABLES
    brokers_,                   \* BrokerListManager::brokers_
    current_broker_index_,      \* BrokerListManager::current_broker_index_
    category_,                  \* BrokerListManager::category_
    client_,                    \* the manager's client_ (NoClient for nullptr)
    cb_pending,                 \* callbacks the client has yet to deliver
    is_connected_,
    is_connecting_,
    current_broker_try_index_,
    message_queue_,
    connection_mutex_,          \* the thread holding it, or "none"
    queue_mutex_,               \* the thread holding it, or "none"
    pc,                         \* the position of each thread
    broker_uris,                \* local of connect / switch / failure handling
    conn_i,                     \* loop variable i of connect
    target_uri,                 \* target_uri / next_uri of the swap
    failed_uri,                 \* argument of handle_connection_failure
    app_list,                   \* the rest of the list set_brokers iterates
    app_ret,                    \* what the last connect() returned
    pub_msg,                    \* arguments of the publish() in progress
    pub_ret,                    \* what the last publish() returned
    next_payload,               \* number of the next publish
    running_,                   \* BrokerMonitorThread::running_
    should_stop_,               \* BrokerMonitorThread::should_stop_
    mon_class,                  \* the measurement class the loop is in
    mon_uris,                   \* the rest of broker_uris of that class
    mon_ticks,                  \* measuring ticks so far
    ss_call,                    \* 1: in on_metrics_updated, 2: in on_broker_switch
    ss_current,                 \* current_broker of should_switch_broker
    ss_best,                    \* best_broker of should_switch_broker
    ss_result,                  \* what the last should_switch_broker returned
    ss_seen,                    \* history: values its condition took meanwhile
    reachable,                  \* the brokers that accept a connection now
    env_events,                 \* environment events so far
    delivered,                  \* history: publishes handed to a client
    attempts,                   \* history: brokers tried by this invocation
    snapshot0,                  \* history: brokers available when it began
    flush_failed,               \* history: a publish of this flush threw
    overlapped,                 \* history: threads whose pending swap request
                                \* saw a connect or a swap in progress
    manager_idle                \* history: connect() was never called, or not
                                \* since the last disconnect() returned

vars == <<brokers_, current_broker_index_, category_, client_, cb_pending,
          is_connected_, is_connecting_, current_broker_try_index_,
          message_queue_, connection_mutex_, queue_mutex_, pc, broker_uris,
          conn_i, target_uri, failed_uri, app_list, app_ret, pub_msg, pub_ret,
          next_payload, running_, should_stop_, mon_class, mon_uris, mon_ticks,
          ss_call, ss_current, ss_best, ss_result, ss_seen, reachable,
          env_events, delivered, attempts, snapshot0,
          flush_failed, overlapped, manager_idle>>

registry_vars == <<brokers_, current_broker_index_, category_>>
flag_vars == <<is_connected_, is_connecting_, current_broker_try_index_>>
client_vars == <<client_, cb_pending>>
mutex_vars == <<connection_mutex_, queue_mutex_>>
swap_locals == <<broker_uris, conn_i, target_uri, failed_uri>>
app_locals == <<app_list, app_ret>>
pub_locals == <<pub_msg, pub_ret, next_payload>>
mon_flags == <<running_, should_stop_>>
mon_locals == <<mon_class, mon_uris, mon_ticks>>
ss_locals == <<ss_call, ss_current, ss_best, ss_result>>
mon_vars == <<mon_flags, mon_locals, ss_locals, ss_seen>>
mon_own == <<mon_flags, mon_locals, ss_locals>>
env_own == <<reachable, env_events>>
env_vars == <<reachable, env_events, mon_vars>>
history_vars == <<attempts, snapshot0, flush_failed, overlapped, manager_idle>>

Threads == {"app", "pub", "cb", "mon"}

\* The threads that have called switch_to_best_broker() and wait for
\* connection_mutex_ at its first line.
Waiting == {t \in {"cb", "mon"} : pc[t] = "switch_enter"}

\* The lists an application passes to set_brokers.
OneBroker == <<"A">>
ThreeBrokers == <<"A", "B", "C">>
BrokerLists == {OneBroker, ThreeBrokers}

\* The list of an application with a primary and a backup broker.
TwoBrokers == <<"A", "B">>

NoClient == [uri |-> "", link |-> "null"]

\* create_client followed by the connect and the wait on its token: the
\* client is bound to uri and its link is up when the broker accepted.
try_connect_to_broker(uri) == uri \in reachable

ConnectedClient(uri) ==
    [uri |-> uri, link |-> IF try_connect_to_broker(uri) THEN "up" ELSE "down"]

\* The n-th publish of the application: topic, payload, qos, retained.
Message(n) ==
    [topic |-> "t", payload |-> n, qos |-> n % 3, retained |-> (n % 2 = 0)]

\* Variant of front: the newest entry instead of the oldest.
back(q) == q[Len(q)]

\* std::queue: front() is the oldest entry, pop() removes it, push() adds at
\* the tail.
front(q) == Head(q)

pop(q) == Tail(q)

push(q, msg) == Append(q, msg)

\* Variant of add_message_to_queue: no limit on the size of the queue.
add_message_to_queue_unbounded(q, msg) == Append(q, msg)

\* Variant of add_message_to_queue: a full queue drops its newest entry.
add_message_to_queue_drop_newest(q, msg) ==
    Append(IF Len(q) >= MAX_QUEUE_SIZE THEN SubSeq(q, 1, Len(q) - 1) ELSE q, msg)

\* add_message_to_queue on a queue value.
add_message_to_queue(q, msg) ==
    push(IF Len(q) >= MAX_QUEUE_SIZE THEN pop(q) ELSE q, msg)

\* The state after construction with the given category, for an application
\* that will call set_brokers(L); every broker of L accepts connections at
\* first.  start gives each thread's position.
InitState(L, category, start) ==
    /\ brokers_ = <<>>
    /\ current_broker_index_ = 0
    /\ category_ = category
    /\ client_ = NoClient
    /\ cb_pending = <<>>
    /\ is_connected_ = FALSE
    /\ is_connecting_ = FALSE
    /\ current_broker_try_index_ = 0
    /\ message_queue_ = <<>>
    /\ connection_mutex_ = "none"
    /\ queue_mutex_ = "none"
    /\ pc = start
    /\ broker_uris = <<>>
    /\ conn_i = 0
    /\ target_uri = ""
    /\ failed_uri = ""
    /\ app_list = L
    /\ app_ret = "none"
    /\ pub_msg = Message(0)
    /\ pub_ret = "none"
    /\ next_payload = 1
    /\ running_ = FALSE
    /\ should_stop_ = FALSE
    /\ mon_class = "none"
    /\ mon_uris = <<>>
    /\ mon_ticks = 0
    /\ ss_call = 0
    /\ ss_current = ""
    /\ ss_best = ""
    /\ ss_result = "none"
    /\ ss_seen = {}
    /\ reachable = {L[i] : i \in 1..Len(L)}
    /\ env_events = 0
    /\ delivered = <<>>
    /\ attempts = <<>>
    /\ snapshot0 = <<>>
    /\ flush_failed = FALSE
    /\ overlapped = {}
    /\ manager_idle = TRUE

\* The application has not called set_brokers yet, the monitor's worker does
\* not exist, the publisher and callback threads are between calls.
InitWith(L, category) ==
    InitState(L, category,
              [t \in Threads |-> IF t = "app" THEN "start"
                                 ELSE IF t = "mon" THEN "stopped" ELSE "idle"])

\* The publisher constructs its manager with its default category, "sensor".
InitFor(L) == InitWith(L, "sensor")

Init == \E L \in BrokerLists : InitFor(L)


Goto(t, label) == pc' = [pc EXCEPT ![t] = label]

\* The process has died: a null client_ was dereferenced.
crashed == pc["pub"] = "crashed"

\* The record a shared_ptr<BrokerInfo> taken from the registry points to; the
\* pointer is held as the record's URI ("" for nullptr).
Deref(bs, p) ==
    IF IndexOfUri(bs, p) = {} THEN BrokerInfo(p)
    ELSE bs[CHOOSE i \in IndexOfUri(bs, p) : TRUE]

\* History.  While the monitor thread is inside should_switch_broker, a step
\* of another thread that writes the registry records the value the
\* condition of should_switch_broker has in the new registry state.
Observe ==
    ss_seen' = IF pc["mon"] \in {"ss_best", "ss_test"}
                   THEN ss_seen \cup
                        {should_switch_broker(brokers_', current_broker_index_')}
                   ELSE ss_seen

\* The locals of connect / switch_to_best_broker go out of scope.
ResetSwapLocals ==
    /\ broker_uris' = <<>>
    /\ conn_i' = 0
    /\ target_uri' = ""
    /\ failed_uri' = ""
    /\ attempts' = <<>>
    /\ snapshot0' = <<>>
    /\ flush_failed' = FALSE
    /\ UNCHANGED <<overlapped, manager_idle>>

\* ------------------------------------------------- application: the registry

\* set_brokers: clear_brokers(), then one add_broker per element.
AppSetBrokers ==
    /\ pc["app"] = "start"
    /\ brokers_' = clear_brokers.brokers
    /\ current_broker_index_' = clear_brokers.index
    /\ Goto("app", IF app_list = <<>> THEN "idle" ELSE "set_brokers")
    /\ UNCHANGED <<category_, client_vars, flag_vars, message_queue_,
                   mutex_vars, swap_locals, app_locals, pub_locals, env_vars,
                   delivered, history_vars>>

AppSetBrokersAdd ==
    /\ pc["app"] = "set_brokers"
    /\ LET r == add_broker(brokers_, current_broker_index_, Head(app_list))
       IN  /\ brokers_' = r.brokers
           /\ current_broker_index_' = r.index
    /\ app_list' = Tail(app_list)
    /\ Goto("app", IF Len(app_list) = 1 THEN "idle" ELSE "set_brokers")
    /\ UNCHANGED <<category_, client_vars, flag_vars, message_queue_,
                   mutex_vars, swap_locals, app_ret, pub_locals, env_vars,
                   delivered, history_vars>>

\* add_broker(broker_uri) of the manager, lines 41-43, called by the
\* application between its other calls.
AppAddBroker ==
    /\ pc["app"] = "idle"
    /\ \E uri \in URIs :
          LET r == add_broker(brokers_, current_broker_index_, uri)
          IN  /\ brokers_' = r.brokers
              /\ current_broker_index_' = r.index
    /\ UNCHANGED <<category_, client_vars, flag_vars, message_queue_,
                   mutex_vars, pc, swap_locals, app_locals, pub_locals,
                   env_vars, delivered, history_vars>>

\* remove_broker(broker_uri) of the manager, lines 45-47.
AppRemoveBroker ==
    /\ pc["app"] = "idle"
    /\ \E uri \in URIs :
          LET r == remove_broker(brokers_, current_broker_index_, uri)
          IN  /\ brokers_' = r.brokers
              /\ current_broker_index_' = r.index
    /\ UNCHANGED <<category_, client_vars, flag_vars, message_queue_,
                   mutex_vars, pc, swap_locals, app_locals, pub_locals,
                   env_vars, delivered, history_vars>>

\* -------------------------------------------------- application: connect()

\* Lines 60-84: the lock, the test of the early return, the snapshot of the
\* available brokers.
AppConnect ==
    /\ pc["app"] = "idle"
    /\ connection_mutex_ = "none"
    /\ connection_mutex_' = "app"
    /\ snapshot0' = AvailableUris(brokers_)
    /\ IF is_connected_ \/ is_connecting_
           THEN /\ Goto("app", "connect_early")
                /\ UNCHANGED <<is_connecting_, broker_uris, app_ret>>
           ELSE LET uris == AvailableUris(brokers_)
                IN  /\ broker_uris' = uris
                    /\ IF uris = <<>>
                           THEN /\ is_connecting_' = FALSE
                                /\ app_ret' = "false"
                                /\ Goto("app", "connect_return")
                           ELSE /\ is_connecting_' = TRUE
                                /\ Goto("app", "connect_try")
                                /\ UNCHANGED app_ret
    /\ UNCHANGED <<registry_vars, client_vars, is_connected_,
                   current_broker_try_index_, message_queue_, queue_mutex_,
                   conn_i, target_uri, failed_uri, app_list, pub_locals,
                   env_vars, delivered, attempts, flush_failed>>
    /\ manager_idle' = FALSE
    /\ overlapped' = IF is_connecting_' THEN overlapped \cup Waiting
                     ELSE overlapped

\* Variant of AppConnectEarly: the early return answers true without reading
\* is_connected_ again.
AppConnectEarlyTrue ==
    /\ pc["app"] = "connect_early"
    /\ app_ret' = "true"
    /\ Goto("app", "connect_return")
    /\ UNCHANGED <<registry_vars, client_vars, flag_vars, message_queue_,
                   mutex_vars, swap_locals, app_list, pub_locals, env_vars,
                   delivered, history_vars>>

\* Line 64: the early return reads is_connected_ again.
AppConnectEarly ==
    /\ pc["app"] = "connect_early"
    /\ app_ret' = IF is_connected_ THEN "true" ELSE "false"
    /\ Goto("app", "connect_return")
    /\ UNCHANGED <<registry_vars, client_vars, flag_vars, message_queue_,
                   mutex_vars, swap_locals, app_list, pub_locals, env_vars,
                   delivered, history_vars>>

\* Lines 87-112: one iteration of the loop over broker_uris.
AppConnectTry ==
    /\ pc["app"] = "connect_try"
    /\ LET uri == broker_uris[conn_i + 1]
       IN  /\ client_' = ConnectedClient(uri)
           /\ attempts' = Append(attempts, uri)
           /\ IF try_connect_to_broker(uri)
                  THEN /\ cb_pending' = <<"connected">>
                       /\ current_broker_index_' =
                              set_current_broker(brokers_, current_broker_index_, uri)
                       /\ is_connected_' = TRUE
                       /\ is_connecting_' = FALSE
                       /\ current_broker_try_index_' = conn_i
                       /\ Goto("app", "connect_flush")
                       /\ UNCHANGED <<brokers_, conn_i, app_ret>>
                  ELSE /\ cb_pending' = <<>>
                       /\ brokers_' = mark_broker_unavailable(brokers_, uri)
                       /\ UNCHANGED <<current_broker_index_, is_connected_,
                                      current_broker_try_index_>>
                       /\ IF conn_i + 1 < Len(broker_uris)
                              THEN /\ conn_i' = conn_i + 1
                                   /\ UNCHANGED <<is_connecting_, app_ret, pc>>
                              ELSE /\ is_connecting_' = FALSE
                                   /\ app_ret' = "false"
                                   /\ Goto("app", "connect_return")
                                   /\ UNCHANGED conn_i
    /\ UNCHANGED <<category_, message_queue_, mutex_vars, broker_uris,
                   target_uri, failed_uri, app_list, pub_locals, env_own,
                   mon_own, delivered, snapshot0, flush_failed, overlapped,
                   manager_idle>>
    /\ Observe

\* connect() returns: the lock_guard gives up connection_mutex_.
AppConnectReturn ==
    /\ pc["app"] = "connect_return"
    /\ connection_mutex_' = "none"
    /\ app_ret' = "none"
    /\ ResetSwapLocals
    /\ Goto("app", "idle")
    /\ UNCHANGED <<registry_vars, client_vars, flag_vars, message_queue_,
                   queue_mutex_, app_list, pub_locals, env_vars, delivered>>

\* ---------------------------------------------- resend_queued_messages()

FlushLabel(t) == IF t = "app" THEN "connect_flush" ELSE "switch_flush"

\* Where a thread goes on when its switch_to_best_broker() has returned.
ReturnLabel(t) == IF t = "mon" THEN "measure" ELSE "idle"

\* A flush that also removes the entry whose publish threw.
FlushPopsFailed(t) ==
    /\ pc[t] = FlushLabel(t)
    /\ queue_mutex_ \in {"none", t}
    /\ IF message_queue_ # <<>> /\ client_.link = "up"
           THEN /\ delivered' = Append(delivered,
                        [msg |-> front(message_queue_), flush |-> TRUE])
                /\ message_queue_' = pop(message_queue_)
                /\ queue_mutex_' = t
                /\ UNCHANGED <<pc, app_ret, flush_failed>>
           ELSE /\ queue_mutex_' = "none"
                /\ Goto(t, IF t = "app" THEN "connect_return" ELSE "switch_return")
                /\ app_ret' = IF t = "app" THEN "true" ELSE app_ret
                /\ flush_failed' = (message_queue_ # <<>>)
                /\ message_queue_' = IF message_queue_ = <<>> THEN <<>>
                                     ELSE pop(message_queue_)
                /\ UNCHANGED delivered
    /\ UNCHANGED <<registry_vars, client_vars, flag_vars, connection_mutex_,
                   swap_locals, app_list, pub_locals, env_vars, attempts,
                   snapshot0, overlapped, manager_idle>>

\* One iteration of the loop of resend_queued_messages, under queue_mutex_
\* (taken by the first iteration).  The publish of a client whose link is down
\* throws and ends the loop.  After the loop connect() returns true and
\* switch_to_best_broker() returns.
Flush(t) ==
    /\ pc[t] = FlushLabel(t)
    /\ queue_mutex_ \in {"none", t}
    /\ IF message_queue_ # <<>> /\ client_.link = "up"
           THEN /\ delivered' = Append(delivered,
                        [msg |-> front(message_queue_), flush |-> TRUE])
                /\ message_queue_' = pop(message_queue_)
                /\ queue_mutex_' = t
                /\ UNCHANGED <<pc, app_ret, flush_failed>>
           ELSE /\ queue_mutex_' = "none"
                /\ Goto(t, IF t = "app" THEN "connect_return" ELSE "switch_return")
                /\ app_ret' = IF t = "app" THEN "true" ELSE app_ret
                /\ flush_failed' = (message_queue_ # <<>>)
                /\ UNCHANGED <<message_queue_, delivered>>
    /\ UNCHANGED <<registry_vars, client_vars, flag_vars, connection_mutex_,
                   swap_locals, app_list, pub_locals, env_vars, attempts,
                   snapshot0, overlapped, manager_idle>>

\* ------------------------------------------------ application: disconnect()

\* Lines 122-133: the lock, the disconnect of the client (if there is one)
\* and the wait on its token, then the two flags.
AppDisconnect ==
    /\ pc["app"] = "idle"
    /\ connection_mutex_ = "none"
    /\ connection_mutex_' = "app"
    /\ client_' = IF client_ = NoClient THEN NoClient
                  ELSE [client_ EXCEPT !.link = "down"]
    /\ is_connected_' = FALSE
    /\ is_connecting_' = FALSE
    /\ Goto("app", "disconnect_destroy")
    /\ UNCHANGED <<registry_vars, cb_pending, current_broker_try_index_,
                   message_queue_, queue_mutex_, swap_locals, app_locals,
                   pub_locals, env_vars, delivered, history_vars>>

\* Line 134 and the return: destroy_client(), after which the client delivers
\* no callback, and the lock_guard gives up connection_mutex_.
AppDisconnectDestroy ==
    /\ pc["app"] = "disconnect_destroy"
    /\ client_' = NoClient
    /\ cb_pending' = <<>>
    /\ connection_mutex_' = "none"
    /\ Goto("app", "idle")
    /\ manager_idle' = TRUE
    /\ UNCHANGED <<registry_vars, flag_vars, message_queue_, queue_mutex_,
                   swap_locals, app_locals, pub_locals, env_vars, delivered,
                   attempts, snapshot0, flush_failed, overlapped>>

\* ---------------------------------- application: subscribe(), unsubscribe()

\* subscribe and unsubscribe have the same shape; op names the one called.
Requests == {"subscribe", "unsubscribe"}

RequestForwardLabel(op) ==
    IF op = "subscribe" THEN "subscribe_forward" ELSE "unsubscribe_forward"

RequestReturnLabel(op) ==
    IF op = "subscribe" THEN "subscribe_return" ELSE "unsubscribe_return"

\* Variant of RequestCall: the request is forwarded without the test of
\* is_connected_.
RequestCallUnchecked(op) ==
    /\ pc["app"] = "idle"
    /\ Goto("app", RequestForwardLabel(op))
    /\ UNCHANGED <<registry_vars, client_vars, flag_vars, message_queue_,
                   mutex_vars, swap_locals, app_locals, pub_locals, env_vars,
                   delivered, history_vars>>

\* Lines 181-183 and 189-191: the test of is_connected_; when it is false
\* the call throws std::runtime_error.
RequestCall(op) ==
    /\ pc["app"] = "idle"
    /\ IF is_connected_
           THEN /\ Goto("app", RequestForwardLabel(op))
                /\ UNCHANGED app_ret
           ELSE /\ Goto("app", RequestReturnLabel(op))
                /\ app_ret' = "not_connected"
    /\ UNCHANGED <<registry_vars, client_vars, flag_vars, message_queue_,
                   mutex_vars, swap_locals, app_list, pub_locals, env_vars,
                   delivered, history_vars>>

\* Lines 185 and 193: client_->subscribe / client_->unsubscribe.  A null
\* client_ is dereferenced (the process dies); a client whose link is down
\* throws its own exception; otherwise the client's token is returned.
RequestForward(op) ==
    /\ pc["app"] = RequestForwardLabel(op)
    /\ IF client_ = NoClient
           THEN /\ pc' = [t \in DOMAIN pc |-> "crashed"]
                /\ UNCHANGED app_ret
           ELSE /\ Goto("app", RequestReturnLabel(op))
                /\ app_ret' = IF client_.link = "up" THEN "token"
                              ELSE "client_error"
    /\ UNCHANGED <<registry_vars, client_vars, flag_vars, message_queue_,
                   mutex_vars, swap_locals, app_list, pub_locals, env_vars,
                   delivered, history_vars>>

\* The call returns, or its exception has reached the caller.
RequestReturn(op) ==
    /\ pc["app"] = RequestReturnLabel(op)
    /\ app_ret' = "none"
    /\ Goto("app", "idle")
    /\ UNCHANGED <<registry_vars, client_vars, flag_vars, message_queue_,
                   mutex_vars, swap_locals, app_list, pub_locals, env_vars,
                   delivered, history_vars>>

\* ------------------------------------------------------------- publish()

\* Line 145: the test of is_connected_.
PubCall ==
    /\ pc["pub"] = "idle"
    /\ next_payload <= MaxPublishes
    /\ pub_msg' = Message(next_payload)
    /\ next_payload' = next_payload + 1
    /\ Goto("pub", IF is_connected_ THEN "pub_forward" ELSE "pub_enqueue")
    /\ UNCHANGED <<registry_vars, client_vars, flag_vars, message_queue_,
                   mutex_vars, swap_locals, app_locals, pub_ret, env_vars,
                   delivered, history_vars>>

\* Variant of PubForward: a forward that throws returns no token without
\* enqueueing the publish.
PubForwardDropsOnError ==
    /\ pc["pub"] = "pub_forward"
    /\ IF client_ = NoClient
           THEN /\ pc' = [t \in DOMAIN pc |-> "crashed"]
                /\ UNCHANGED <<pub_ret, delivered>>
           ELSE IF client_.link = "up"
                    THEN /\ delivered' = Append(delivered,
                                 [msg |-> pub_msg, flush |-> FALSE])
                         /\ pub_ret' = "token"
                         /\ Goto("pub", "pub_return")
                    ELSE /\ pub_ret' = "null"
                         /\ Goto("pub", "pub_return")
                         /\ UNCHANGED delivered
    /\ UNCHANGED <<registry_vars, client_vars, flag_vars, message_queue_,
                   mutex_vars, swap_locals, app_locals, pub_msg, next_payload,
                   env_vars, history_vars>>

\* Lines 151-154: client_->publish.  A null client_ is dereferenced (the
\* process dies); a client whose link is down throws.
PubForward ==
    /\ pc["pub"] = "pub_forward"
    /\ IF client_ = NoClient
           THEN /\ pc' = [t \in DOMAIN pc |-> "crashed"]
                /\ UNCHANGED <<pub_ret, delivered>>
           ELSE IF client_.link = "up"
                    THEN /\ delivered' = Append(delivered,
                                 [msg |-> pub_msg, flush |-> FALSE])
                         /\ pub_ret' = "token"
                         /\ Goto("pub", "pub_return")
                    ELSE /\ Goto("pub", "pub_enqueue")
                         /\ UNCHANGED <<pub_ret, delivered>>
    /\ UNCHANGED <<registry_vars, client_vars, flag_vars, message_queue_,
                   mutex_vars, swap_locals, app_locals, pub_msg, next_payload,
                   env_vars, history_vars>>

\* Lines 147-148 and 156-157: add_message_to_queue, then return nullptr.
PubEnqueue ==
    /\ pc["pub"] = "pub_enqueue"
    /\ queue_mutex_ = "none"
    /\ message_queue_' = add_message_to_queue(message_queue_, pub_msg)
    /\ pub_ret' = "null"
    /\ Goto("pub", "pub_return")
    /\ UNCHANGED <<registry_vars, client_vars, flag_vars, mutex_vars,
                   swap_locals, app_locals, pub_msg, next_payload, env_vars,
                   delivered, history_vars>>

\* publish() returns to the application.
PubReturn ==
    /\ pc["pub"] = "pub_return"
    /\ pub_msg' = Message(0)
    /\ pub_ret' = "none"
    /\ Goto("pub", "idle")
    /\ UNCHANGED <<registry_vars, client_vars, flag_vars, message_queue_,
                   mutex_vars, swap_locals, app_locals, next_payload, env_vars,
                   delivered, history_vars>>

\* ------------------------------------------- the client's callback thread

\* connected(cause): is_connected_ = true, then the user's callback.
CbConnected ==
    /\ pc["cb"] = "idle"
    /\ cb_pending # <<>>
    /\ Head(cb_pending) = "connected"
    /\ cb_pending' = Tail(cb_pending)
    /\ is_connected_' = TRUE
    /\ UNCHANGED <<registry_vars, client_, is_connecting_,
                   current_broker_try_index_, message_queue_, mutex_vars, pc,
                   swap_locals, app_locals, pub_locals, env_vars, delivered, history_vars>>

\* Variant of CbConnectionLost: the reconnect is started without the user's
\* callback.
CbConnectionLostNoCallback ==
    /\ pc["cb"] = "idle"
    /\ cb_pending # <<>>
    /\ Head(cb_pending) = "connection_lost"
    /\ cb_pending' = Tail(cb_pending)
    /\ is_connected_' = FALSE
    /\ Goto("cb", "switch_enter")
    /\ UNCHANGED <<registry_vars, client_, is_connecting_,
                   current_broker_try_index_, message_queue_, mutex_vars,
                   swap_locals, app_locals, pub_locals, env_vars, delivered, history_vars>>

\* connection_lost(cause), line 240: is_connected_ = false.
CbConnectionLost ==
    /\ pc["cb"] = "idle"
    /\ cb_pending # <<>>
    /\ Head(cb_pending) = "connection_lost"
    /\ cb_pending' = Tail(cb_pending)
    /\ is_connected_' = FALSE
    /\ Goto("cb", "lost_callback")
    /\ UNCHANGED <<registry_vars, client_, is_connecting_,
                   current_broker_try_index_, message_queue_, mutex_vars,
                   swap_locals, app_locals, pub_locals, env_vars, delivered, history_vars>>

\* Lines 243-248: the user's callback, then the call of
\* switch_to_best_broker.
CbUserCallback ==
    /\ pc["cb"] = "lost_callback"
    /\ Goto("cb", "switch_enter")
    /\ overlapped' = IF is_connecting_ THEN overlapped \cup {"cb"}
                     ELSE overlapped
    /\ UNCHANGED <<registry_vars, client_vars, flag_vars, message_queue_,
                   mutex_vars, swap_locals, app_locals, pub_locals, env_vars,
                   delivered, attempts, snapshot0, flush_failed,
                   manager_idle>>

\* ------------------------------------------------ switch_to_best_broker()

\* Lines 371-406: the lock, the re-entry guard, destroy_client, the snapshot
\* of the available brokers and the choice of
\* broker_uris[current_broker_try_index_].
SwitchEnter(t) ==
    /\ pc[t] = "switch_enter"
    /\ connection_mutex_ = "none"
    /\ connection_mutex_' = t
    /\ snapshot0' = AvailableUris(brokers_)
    /\ IF is_connecting_
           THEN /\ Goto(t, "switch_return")
                /\ UNCHANGED <<client_vars, is_connecting_,
                               current_broker_try_index_, broker_uris,
                               target_uri>>
           ELSE LET uris == AvailableUris(brokers_)
                    idx == IF current_broker_try_index_ >= Len(uris)
                               THEN 0 ELSE current_broker_try_index_
                IN  /\ client_' = NoClient
                    /\ cb_pending' = <<>>
                    /\ broker_uris' = uris
                    /\ IF uris = <<>>
                           THEN /\ is_connecting_' = FALSE
                                /\ Goto(t, "switch_return")
                                /\ UNCHANGED <<current_broker_try_index_,
                                               target_uri>>
                           ELSE /\ is_connecting_' = TRUE
                                /\ current_broker_try_index_' = idx
                                /\ target_uri' = uris[idx + 1]
                                /\ Goto(t, "switch_try")
    /\ UNCHANGED <<registry_vars, is_connected_, message_queue_, queue_mutex_,
                   conn_i, failed_uri, app_locals, pub_locals, env_vars,
                   delivered, attempts, flush_failed, manager_idle>>
    /\ overlapped' = (IF is_connecting_' THEN overlapped \cup Waiting
                      ELSE overlapped) \ {t}

\* Lines 409-425 and 342-356: try_connect_to_broker(target_uri) and what
\* follows its result, in switch_to_best_broker and in
\* handle_connection_failure alike.
SwitchTry(t) ==
    /\ pc[t] = "switch_try"
    /\ client_' = ConnectedClient(target_uri)
    /\ attempts' = Append(attempts, target_uri)
    /\ IF try_connect_to_broker(target_uri)
           THEN /\ cb_pending' = <<"connected">>
                /\ current_broker_index_' =
                       set_current_broker(brokers_, current_broker_index_, target_uri)
                /\ is_connected_' = TRUE
                /\ is_connecting_' = FALSE
                /\ current_broker_try_index_' = 0
                /\ Goto(t, "switch_flush")
                /\ UNCHANGED failed_uri
           ELSE /\ cb_pending' = <<>>
                /\ current_broker_try_index_' = current_broker_try_index_ + 1
                /\ failed_uri' = target_uri
                /\ Goto(t, "handle_failure")
                /\ UNCHANGED <<current_broker_index_, is_connected_, is_connecting_>>
    /\ UNCHANGED <<brokers_, category_, message_queue_, mutex_vars, broker_uris,
                   conn_i, target_uri, app_locals, pub_locals, env_own, mon_own,
                   delivered, snapshot0, flush_failed, overlapped,
                   manager_idle>>
    /\ Observe

\* handle_connection_failure(failed_uri), lines 316-340 and 357-363: mark the
\* broker unavailable, take a new snapshot and choose
\* broker_uris[current_broker_try_index_], or give up.  Giving up returns
\* through every caller to line 424 of switch_to_best_broker.
HandleFailure(t) ==
    /\ pc[t] = "handle_failure"
    /\ brokers_' = mark_broker_unavailable(brokers_, failed_uri)
    /\ LET uris == AvailableUris(brokers_')
       IN  /\ broker_uris' = uris
           /\ IF uris # <<>> /\ current_broker_try_index_ < Len(uris)
                  THEN /\ target_uri' = uris[current_broker_try_index_ + 1]
                       /\ Goto(t, "switch_try")
                       /\ UNCHANGED <<is_connecting_, current_broker_try_index_>>
                  ELSE /\ current_broker_try_index_' =
                              IF uris = <<>> THEN current_broker_try_index_ ELSE 0
                       /\ is_connecting_' = FALSE
                       /\ Goto(t, "switch_return")
                       /\ UNCHANGED target_uri
    /\ UNCHANGED <<current_broker_index_, category_, client_vars, is_connected_,
                   message_queue_, mutex_vars, conn_i, failed_uri, app_locals,
                   pub_locals, env_own, mon_own, delivered, history_vars>>
    /\ Observe

\* switch_to_best_broker() returns: the lock_guard gives up
\* connection_mutex_.
SwitchReturn(t) ==
    /\ pc[t] = "switch_return"
    /\ connection_mutex_' = "none"
    /\ ResetSwapLocals
    /\ Goto(t, ReturnLabel(t))
    /\ UNCHANGED <<registry_vars, client_vars, flag_vars, message_queue_,
                   queue_mutex_, app_locals, pub_locals, env_vars, delivered>>

\* ---------------------------------------------------- the monitor thread

\* The values a successful measurement returns in this environment: broker
\* "A" is the slow one.
LatencySet(uri) == IF uri = "A" THEN {80} ELSE {30}
BandwidthSet == {500}
ConnectionSet == {20}

\* start_monitoring(): BrokerMonitorThread::start.  The first iteration of
\* monitor_loop measures nothing (no interval has elapsed) and sleeps.
AppStartMonitoring ==
    /\ pc["app"] = "idle"
    /\ IF running_
           THEN UNCHANGED <<mon_flags, pc>>
           ELSE /\ should_stop_' = FALSE
                /\ running_' = TRUE
                /\ Goto("mon", "sleep")
    /\ UNCHANGED <<registry_vars, client_vars, flag_vars, message_queue_,
                   mutex_vars, swap_locals, app_locals, pub_locals, mon_locals,
                   ss_locals, ss_seen, env_own, delivered, history_vars>>

\* stop_monitoring(): BrokerMonitorThread::stop up to the join.
AppStopMonitoring ==
    /\ pc["app"] = "idle"
    /\ IF ~running_
           THEN UNCHANGED <<mon_flags, pc>>
           ELSE /\ should_stop_' = TRUE
                /\ running_' = FALSE
                /\ Goto("app", "stop_join")
    /\ UNCHANGED <<registry_vars, client_vars, flag_vars, message_queue_,
                   mutex_vars, swap_locals, app_locals, pub_locals, mon_locals,
                   ss_locals, ss_seen, env_own, delivered, history_vars>>

\* Variant of AppStopJoin: stop() returns without joining the worker.
AppStopNoJoin ==
    /\ pc["app"] = "stop_join"
    /\ Goto("app", "idle")
    /\ UNCHANGED <<registry_vars, client_vars, flag_vars, message_queue_,
                   mutex_vars, swap_locals, app_locals, pub_locals, env_vars,
                   delivered, history_vars>>

\* The join returns when the worker has left monitor_loop.
AppStopJoin ==
    /\ pc["app"] = "stop_join"
    /\ pc["mon"] = "stopped"
    /\ Goto("app", "idle")
    /\ UNCHANGED <<registry_vars, client_vars, flag_vars, message_queue_,
                   mutex_vars, swap_locals, app_locals, pub_locals, env_vars,
                   delivered, history_vars>>

\* Variant of MonTick: the loop goes on without testing should_stop_.
MonTickIgnoresStop ==
    /\ pc["mon"] = "sleep"
    /\ mon_ticks < MaxTicks
    /\ mon_ticks' = mon_ticks + 1
    /\ mon_class' = "latency"
    /\ mon_uris' = get_broker_uris(brokers_)
    /\ Goto("mon", "measure")
    /\ UNCHANGED <<registry_vars, client_vars, flag_vars, message_queue_,
                   mutex_vars, swap_locals, app_locals, pub_locals, mon_flags,
                   ss_locals, ss_seen, env_own, delivered, history_vars>>

\* monitor_loop, lines 216-221 and 253: the sleep ends, the loop tests
\* should_stop_, and a new iteration begins with the latency class (after a
\* sleep of MONITOR_INTERVAL_MS every interval has elapsed).
MonTick ==
    /\ pc["mon"] = "sleep"
    /\ IF should_stop_
           THEN /\ Goto("mon", "stopped")
                /\ UNCHANGED mon_locals
           ELSE /\ mon_ticks < MaxTicks
                /\ mon_ticks' = mon_ticks + 1
                /\ mon_class' = "latency"
                /\ mon_uris' = get_broker_uris(brokers_)
                /\ Goto("mon", "measure")
    /\ UNCHANGED <<registry_vars, client_vars, flag_vars, message_queue_,
                   mutex_vars, swap_locals, app_locals, pub_locals, mon_flags,
                   ss_locals, ss_seen, env_own, delivered, history_vars>>

\* The end of one class's loop over broker_uris: the next class takes its own
\* snapshot of the URIs; after the connection class the thread sleeps.
MonNextClass ==
    /\ pc["mon"] = "measure"
    /\ mon_uris = <<>>
    /\ IF mon_class = "connection"
           THEN /\ mon_class' = "none"
                /\ mon_uris' = <<>>
                /\ Goto("mon", "sleep")
           ELSE /\ mon_class' = IF mon_class = "latency" THEN "bandwidth"
                                ELSE "connection"
                /\ mon_uris' = get_broker_uris(brokers_)
                /\ UNCHANGED pc
    /\ ss_result' = "none"
    /\ UNCHANGED <<registry_vars, client_vars, flag_vars, message_queue_,
                   mutex_vars, swap_locals, app_locals, pub_locals, mon_flags,
                   mon_ticks, ss_call, ss_current, ss_best, ss_seen, env_own,
                   delivered, history_vars>>

\* Variant of MergedUpdate: the other two metrics are not read back from the
\* registry but passed as zero.
MergedUpdateResetsOthers(bs, category, class, uri, v) ==
    IF class = "latency"
        THEN update_broker_metrics(bs, category, uri, v, 0, 0)
    ELSE IF class = "bandwidth"
        THEN update_broker_metrics(bs, category, uri, 0, v, 0)
        ELSE update_broker_metrics(bs, category, uri, 0, 0, v)

\* update_broker_metrics with the measured value merged into the record's
\* other two metrics (measure_latency, measure_bandwidth,
\* check_connection_count).
MergedUpdate(bs, category, class, uri, v) ==
    LET b == Deref(bs, uri)
    IN  IF class = "latency"
            THEN update_broker_metrics(bs, category, uri,
                                       v, b.bandwidth, b.connection_count)
        ELSE IF class = "bandwidth"
            THEN update_broker_metrics(bs, category, uri,
                                       b.latency, v, b.connection_count)
            ELSE update_broker_metrics(bs, category, uri,
                                       b.latency, b.bandwidth, v)

ValuesOf(class, uri) ==
    IF class = "latency" THEN LatencySet(uri)
    ELSE IF class = "bandwidth" THEN BandwidthSet ELSE ConnectionSet

\* Variant of MeasureFailed: a failed connection-count check marks the
\* broker unavailable too.
MeasureFailedAlwaysMarks(bs, class, uri) == mark_broker_unavailable(bs, uri)

\* What a failed measurement does to the registry: a latency or bandwidth
\* failure marks the broker unavailable, a connection-count failure is only
\* logged.
MeasureFailed(bs, class, uri) ==
    IF class \in {"latency", "bandwidth"}
        THEN mark_broker_unavailable(bs, uri)
        ELSE bs

\* One iteration of a class's loop: the test of should_stop_, then
\* measure_latency / measure_bandwidth / check_connection_count.  The test
\* client cannot connect to a broker that is down and the measurement throws.
\* After update_broker_metrics the thread runs on_metrics_updated.
MonMeasure ==
    /\ pc["mon"] = "measure"
    /\ mon_uris # <<>>
    /\ mon_uris' = Tail(mon_uris)
    /\ ss_result' = "none"
    /\ LET uri == Head(mon_uris)
       IN  IF should_stop_
               THEN UNCHANGED <<brokers_, pc, ss_call>>
           ELSE IF uri \notin reachable
               THEN /\ brokers_' = MeasureFailed(brokers_, mon_class, uri)
                    /\ UNCHANGED <<pc, ss_call>>
           ELSE IF IndexOfUri(brokers_, uri) = {}
               THEN UNCHANGED <<brokers_, pc, ss_call>>
           ELSE \E v \in ValuesOf(mon_class, uri) :
                    /\ brokers_' = MergedUpdate(brokers_, category_, mon_class, uri, v)
                    /\ ss_call' = 1
                    /\ Goto("mon", "ss_cur")
    /\ UNCHANGED <<current_broker_index_, category_, client_vars, flag_vars,
                   message_queue_, mutex_vars, swap_locals, app_locals,
                   pub_locals, mon_flags, mon_class, mon_ticks, ss_current,
                   ss_best, ss_seen, env_own, delivered, history_vars>>

\* should_switch_broker, line 255: get_current_broker().
SsCurrent ==
    /\ pc["mon"] = "ss_cur"
    /\ ss_current' = get_current_broker_uri(brokers_, current_broker_index_)
    /\ ss_seen' = {should_switch_broker(brokers_, current_broker_index_)}
    /\ Goto("mon", "ss_best")
    /\ UNCHANGED <<registry_vars, client_vars, flag_vars, message_queue_,
                   mutex_vars, swap_locals, app_locals, pub_locals, mon_flags,
                   mon_locals, ss_call, ss_best, ss_result, env_own, delivered,
                   history_vars>>

\* should_switch_broker, line 256: find_best_broker().
SsBest ==
    /\ pc["mon"] = "ss_best"
    /\ ss_best' = IF find_best_broker(brokers_) = 0 THEN ""
                  ELSE brokers_[find_best_broker(brokers_)].uri
    /\ Goto("mon", "ss_test")
    /\ UNCHANGED <<registry_vars, client_vars, flag_vars, message_queue_,
                   mutex_vars, swap_locals, app_locals, pub_locals, mon_flags,
                   mon_locals, ss_call, ss_current, ss_result, ss_seen, env_own,
                   delivered, history_vars>>

\* The value should_switch_broker returns, lines 258-269: the two records are
\* read through their pointers, outside the registry's mutex.
SsReturn(bs, cur, best) ==
    /\ cur # ""
    /\ best # ""
    /\ SwitchTest(cur, Deref(bs, cur).score, best, Deref(bs, best).score)

\* should_switch_broker returns to on_metrics_updated (line 492) or to
\* on_broker_switch (line 476).
SsTest ==
    /\ pc["mon"] = "ss_test"
    /\ LET r == SsReturn(brokers_, ss_current, ss_best)
       IN  /\ ss_result' = IF r THEN "true" ELSE "false"
           /\ Goto("mon", IF ~r THEN "measure"
                          ELSE IF ss_call = 1 THEN "omu_best" ELSE "switch_enter")
    /\ ss_current' = ""
    /\ ss_best' = ""
    /\ ss_seen' = {}
    /\ overlapped' = IF pc'["mon"] = "switch_enter" /\ is_connecting_
                         THEN overlapped \cup {"mon"}
                         ELSE overlapped
    /\ UNCHANGED <<registry_vars, client_vars, flag_vars, message_queue_,
                   mutex_vars, swap_locals, app_locals, pub_locals, mon_flags,
                   mon_locals, ss_call, env_own, delivered, attempts, snapshot0,
                   flush_failed, manager_idle>>

\* on_metrics_updated, lines 493-496: find_best_broker(), then
\* on_broker_switch(best_broker->uri) when there is one.
OmuBest ==
    /\ pc["mon"] = "omu_best"
    /\ ss_result' = "none"
    /\ IF find_best_broker(brokers_) = 0
           THEN /\ Goto("mon", "measure")
                /\ UNCHANGED ss_call
           ELSE /\ ss_call' = 2
                /\ Goto("mon", "ss_cur")
    /\ UNCHANGED <<registry_vars, client_vars, flag_vars, message_queue_,
                   mutex_vars, swap_locals, app_locals, pub_locals, mon_flags,
                   mon_locals, ss_current, ss_best, ss_seen, env_own, delivered,
                   history_vars>>

\* ------------------------------------------------------------ environment

\* A broker stops accepting connections; the link of a client connected to it
\* breaks and the client queues its connection_lost callback.
BrokerDown ==
    \E u \in reachable :
        /\ ~crashed
        /\ IndexOfUri(brokers_, u) # {}
        /\ env_events < MaxEnvEvents
        /\ env_events' = env_events + 1
        /\ reachable' = reachable \ {u}
        /\ IF client_.uri = u /\ client_.link = "up"
               THEN /\ client_' = [client_ EXCEPT !.link = "down"]
                    /\ cb_pending' = Append(cb_pending, "connection_lost")
               ELSE UNCHANGED client_vars
        /\ UNCHANGED <<mon_vars, registry_vars, flag_vars, message_queue_, mutex_vars, pc,
                       swap_locals, app_locals, pub_locals, delivered,
                       history_vars>>

BrokerUp ==
    \E u \in URIs \ reachable :
        /\ ~crashed
        /\ IndexOfUri(brokers_, u) # {}
        /\ env_events < MaxEnvEvents
        /\ env_events' = env_events + 1
        /\ reachable' = reachable \cup {u}
        /\ UNCHANGED <<mon_vars, registry_vars, client_vars, flag_vars, message_queue_,
                       mutex_vars, pc, swap_locals, app_locals, pub_locals,
                       delivered, history_vars>>

\* ------------------------------------------- the registry driven directly

\* The categories a registry is constructed with: two of the table and one
\* that the table does not know.
Categories == {"camera", "rfid", "thermostat"}

\* The arguments (latency, bandwidth, connection_count) of
\* update_broker_metrics: inside the baselines, beyond them, zero and
\* negative, and a middle value.
MetricProfiles ==
    { <<10, 2000, 10>>, <<150, 500, 200>>, <<-5, 0, -1>>, <<50, 500, 50>> }

InitRegistry == \E category \in Categories : InitWith(<<>>, category)

\* Every variable a registry operation leaves alone.
RegistryFrame ==
    UNCHANGED <<category_, client_vars, flag_vars, message_queue_, mutex_vars,
                pc, swap_locals, app_locals, pub_locals, env_vars, delivered,
                history_vars>>

RegAddBroker ==
    \E uri \in URIs :
        LET r == add_broker(brokers_, current_broker_index_, uri)
        IN  /\ brokers_' = r.brokers
            /\ current_broker_index_' = r.index
            /\ RegistryFrame

RegRemoveBroker ==
    \E uri \in URIs :
        LET r == remove_broker(brokers_, current_broker_index_, uri)
        IN  /\ brokers_' = r.brokers
            /\ current_broker_index_' = r.index
            /\ RegistryFrame

RegClearBrokers ==
    /\ brokers_' = clear_brokers.brokers
    /\ current_broker_index_' = clear_brokers.index
    /\ RegistryFrame

RegSetCurrentBroker ==
    \E uri \in URIs :
        /\ current_broker_index_' =
               set_current_broker(brokers_, current_broker_index_, uri)
        /\ UNCHANGED brokers_
        /\ RegistryFrame

\* The lists given to set_brokers: empty, single, with repeated elements, and
\* the three brokers.
SetBrokersLists ==
    { <<>>, <<"A">>, <<"B", "A", "B">>, <<"C", "C", "A">>, <<"A", "B", "C">> }

RegSetBrokers ==
    \E uris \in SetBrokersLists :
        LET r == set_brokers(brokers_, current_broker_index_, uris)
        IN  /\ brokers_' = r.brokers
            /\ current_broker_index_' = r.index
            /\ RegistryFrame

RegUpdateMetrics ==
    \E uri \in URIs, m \in MetricProfiles :
        /\ brokers_' = update_broker_metrics(brokers_, category_, uri,
                                             m[1], m[2], m[3])
        /\ UNCHANGED current_broker_index_
        /\ RegistryFrame

RegMarkUnavailable ==
    \E uri \in URIs :
        /\ brokers_' = mark_broker_unavailable(brokers_, uri)
        /\ UNCHANGED current_broker_index_
        /\ RegistryFrame

RegMarkAvailable ==
    \E uri \in URIs :
        /\ brokers_' = mark_broker_available(brokers_, category_, uri)
        /\ UNCHANGED current_broker_index_
        /\ RegistryFrame

\* ------------------------------------------------------------------ claims

Last(s) == s[Len(s)]

Front(s) == SubSeq(s, 1, Len(s) - 1)

\* The step is one of the publishing thread.
PubStep == pc'["pub"] # pc["pub"]

\* C1: a publish() that finds is_connected_ false goes on to enqueue without
\* touching the client; so does one whose forward throws.  The enqueue puts
\* exactly the publish's (topic, payload, qos, retained) at the tail of the
\* queue, hands nothing to the client and returns no token.  A forward that
\* succeeds returns the client's token, hands the publish to the client and
\* leaves the queue as it was.
C1_Step ==
    /\ (pc["pub"] = "idle" /\ PubStep /\ ~is_connected_)
           => /\ pc'["pub"] = "pub_enqueue"
              /\ message_queue_' = message_queue_
    /\ (pc["pub"] = "pub_forward" /\ PubStep /\ client_.link = "down")
           => /\ pc'["pub"] = "pub_enqueue"
              /\ delivered' = delivered
    /\ (pc["pub"] = "pub_enqueue" /\ PubStep)
           => /\ pc'["pub"] = "pub_return"
              /\ pub_ret' = "null"
              /\ message_queue_' # <<>>
              /\ Last(message_queue_') = pub_msg
              /\ \/ Front(message_queue_') = message_queue_
                 \/ /\ message_queue_ # <<>>
                    /\ Front(message_queue_') = Tail(message_queue_)
              /\ delivered' = delivered
    /\ (pc'["pub"] = "pub_return" /\ PubStep)
           => \/ pc["pub"] = "pub_enqueue"
              \/ /\ pc["pub"] = "pub_forward"
                 /\ client_.link = "up"
                 /\ pub_ret' = "token"
                 /\ message_queue_' = message_queue_
                 /\ delivered' = Append(delivered, [msg |-> pub_msg, flush |-> FALSE])

C1_PublishContract == [][C1_Step]_vars

\* A publish whose forward threw has returned no token and its entry is the
\* tail of the queue, while is_connected_ is still true.
C1_Witness ==
    /\ pc["pub"] = "pub_return"
    /\ pub_ret = "null"
    /\ is_connected_
    /\ client_.link = "down"
    /\ message_queue_ # <<>>
    /\ Last(message_queue_) = pub_msg

\* The brokers of a list of URIs that the registry holds as available.
AllUnavailable(bs, uris) ==
    \A k \in 1..Len(uris) : ~Deref(bs, uris[k]).is_available

\* C3: when connect() has made attempts and is about to return true, the
\* brokers it attempted are an initial part of the brokers that were available
\* when it was called, in registration order; the last one attempted is the
\* registry's current broker; every one attempted before it is marked
\* unavailable.  An attempt of connect() changes no record of the registry
\* but that of the broker attempted, so the brokers after the successful one
\* are left as they were.
C3_AtReturn ==
    (pc["app"] = "connect_return" /\ app_ret = "true" /\ attempts # <<>>)
        => /\ Len(attempts) <= Len(snapshot0)
           /\ attempts = SubSeq(snapshot0, 1, Len(attempts))
           /\ get_current_broker_uri(brokers_, current_broker_index_) = Last(attempts)
           /\ AllUnavailable(brokers_, Front(attempts))

C3_Attempt ==
    (pc["app"] = "connect_try" /\ attempts' # attempts)
        => /\ attempts' = Append(attempts, snapshot0[Len(attempts) + 1])
           /\ Len(brokers_') = Len(brokers_)
           /\ \A k \in 1..Len(brokers_) :
                  brokers_[k].uri # Last(attempts') => brokers_'[k] = brokers_[k]
           /\ pc'["app"] = "connect_flush" <=> Last(attempts') \in reachable

C3_ConnectFallThrough == []C3_AtReturn /\ [][C3_Attempt]_vars

\* Registry [A, B, C], A unreachable and B reachable: connect() returns true
\* having attempted A then B, with C still available.
C3_Witness ==
    /\ pc["app"] = "connect_return"
    /\ app_ret = "true"
    /\ snapshot0 = <<"A", "B", "C">>
    /\ attempts = <<"A", "B">>
    /\ get_current_broker_uri(brokers_, current_broker_index_) = "B"
    /\ ~Deref(brokers_, "A").is_available
    /\ Deref(brokers_, "C").is_available

\* C4: when connect() is about to return false, it has attempted every broker
\* that was available when it was called, once each (none, when none was
\* available); is_connected_ and is_connecting_ are false; every broker it
\* attempted is marked unavailable.  And when every available broker was
\* attempted and is marked unavailable, connect() returns false.
C4_ConnectFalse ==
    pc["app"] = "connect_return"
        => /\ app_ret = "false"
               => /\ attempts = snapshot0
                  /\ ~is_connected_
                  /\ ~is_connecting_
                  /\ AllUnavailable(brokers_, attempts)
           /\ (attempts = snapshot0 /\ AllUnavailable(brokers_, attempts))
               => app_ret = "false"

\* C8: the offline queue never holds more than MAX_QUEUE_SIZE entries.
C8_QueueBounded == Len(message_queue_) <= MAX_QUEUE_SIZE

\* The queue is full after an overflow: nothing was delivered, and the first
\* publish is no longer queued.
C8_Witness ==
    /\ Len(message_queue_) = MAX_QUEUE_SIZE
    /\ delivered = <<>>
    /\ Head(message_queue_).payload > 1

\* C9: an enqueue into a full queue removes the oldest entry and appends the
\* new one, the others keeping their order.  So when MAX_QUEUE_SIZE + 1
\* publishes have all been queued, all the deliveries are those of a flush and
\* the queue is empty again, the publishes delivered are the 2nd to the last,
\* in that order.
C9_Step ==
    (pc["pub"] = "pub_enqueue" /\ PubStep /\ Len(message_queue_) = MAX_QUEUE_SIZE)
        => /\ Len(message_queue_') = MAX_QUEUE_SIZE
           /\ Front(message_queue_') = Tail(message_queue_)
           /\ Last(message_queue_') = pub_msg

C9_Scenario ==
    /\ pc["pub"] = "idle"
    /\ next_payload = MAX_QUEUE_SIZE + 2
    /\ message_queue_ = <<>>
    /\ Len(delivered) = MAX_QUEUE_SIZE
    /\ \A k \in 1..Len(delivered) : delivered[k].flush

C9_OverflowDropsOldest ==
    /\ [][C9_Step]_vars
    /\ [](C9_Scenario =>
              \A k \in 1..MAX_QUEUE_SIZE : delivered[k].msg = Message(k + 1))

C9_Witness == C9_Scenario /\ delivered[1].msg.payload = 2

\* The indices of the deliveries made by a flush.
Flushed == {k \in 1..Len(delivered) : delivered[k].flush}

\* C10: the queue holds its entries in the order they were enqueued (the
\* order of the publish calls), and the flushes hand entries to the client in
\* that order: of two entries handed over by a flush, the one published
\* earlier was handed over first.
C10_FlushFifo ==
    /\ \A j, k \in 1..Len(message_queue_) :
           j < k => message_queue_[j].payload < message_queue_[k].payload
    /\ \A j, k \in Flushed :
           j < k => delivered[j].msg.payload < delivered[k].msg.payload
    /\ \A j \in Flushed : \A k \in 1..Len(message_queue_) :
           delivered[j].msg.payload < message_queue_[k].payload

\* p1 was delivered before the outage; p2 and p3 were queued during it and
\* a flush has handed them over, p2 first.
C10_Witness ==
    /\ Len(delivered) = 3
    /\ ~delivered[1].flush /\ delivered[1].msg.payload = 1
    /\ delivered[2].flush /\ delivered[2].msg.payload = 2
    /\ delivered[3].flush /\ delivered[3].msg.payload = 3

\* Some registered broker accepts connections.
SomeReachable == \E k \in 1..Len(brokers_) : brokers_[k].uri \in reachable

\* C2: once the manager is connected with entries in the offline queue, the
\* queue eventually becomes empty, unless the manager stops being connected
\* (or the process has died).
C2_QueuedIsResent ==
    (is_connected_ /\ message_queue_ # <<>>)
        ~> (message_queue_ = <<>> \/ ~is_connected_ \/ crashed)

\* C5: from any moment after which some registered broker stays reachable,
\* an application that keeps calling connect() is eventually connected
\* (or the process has died).
C5_RetryReconnects ==
    []([]SomeReachable => <>(is_connected_ \/ crashed))

\* The URI of the record find_best_broker returns, "" for nullptr.
BestUri(bs) == IF find_best_broker(bs) = 0 THEN "" ELSE bs[find_best_broker(bs)].uri

\* C6: in a swap that on_broker_switch started because should_switch_broker
\* returned true, the first broker attempted is the one find_best_broker
\* returns, and when that attempt succeeds that broker is the registry's
\* current broker.
C6_SwapStartsAtBest ==
    /\ (pc["mon"] = "switch_try" /\ attempts = <<>>)
           => target_uri = BestUri(brokers_)
    /\ (pc["mon"] = "switch_flush" /\ Len(attempts) = 1)
           => /\ get_current_broker_uri(brokers_, current_broker_index_) = attempts[1]
              /\ attempts[1] = BestUri(brokers_)

\* C7: the value a call of should_switch_broker returns is the value of its
\* condition (a current and a best record exist, their URIs differ, and the
\* best's score exceeds the current's by more than SWITCH_THRESHOLD) in some
\* registry state between the call and the return.
C7_Step ==
    (pc["mon"] = "ss_test" /\ pc'["mon"] # "ss_test")
        => (ss_result' = "true") \in ss_seen

C7_ShouldSwitchIff == [][C7_Step]_vars

\* A step of the loop of resend_queued_messages run by thread t.
FlushStep(t) ==
    /\ pc[t] = FlushLabel(t)
    /\ \/ pc'[t] # pc[t]
       \/ queue_mutex_' = t /\ (queue_mutex_ # t \/ message_queue_' # message_queue_)

\* C11: a flush whose publish of a queued entry fails stops at once.  Every
\* step of a flush either forwards the front entry and removes exactly that
\* entry, or ends the flush and leaves the queue as it is; the flush ends with
\* a non-empty queue only when the publish of its front entry failed; and
\* while a flush holds queue_mutex_ nothing else changes the queue.  So the
\* failed entry and the later ones stay, in order, and exactly the entries
\* before it were removed.
C11_Step ==
    /\ \A t \in {"app", "cb", "mon"} :
          FlushStep(t) =>
             \/ /\ message_queue_ # <<>> /\ client_.link = "up"
                /\ message_queue_' = Tail(message_queue_)
                /\ delivered' = Append(delivered,
                                   [msg |-> Head(message_queue_), flush |-> TRUE])
                /\ pc'[t] = pc[t]
             \/ /\ message_queue_ = <<>> \/ client_.link # "up"
                /\ message_queue_' = message_queue_
                /\ delivered' = delivered
                /\ pc'[t] # pc[t]
    /\ (queue_mutex_ # "none" /\ message_queue_' # message_queue_)
          => FlushStep(queue_mutex_)

C11_FlushStopsOnFailure == [][C11_Step]_vars

\* A flush that has forwarded an entry, with entries left and the link now
\* down: its next publish fails.
C11_Witness ==
    /\ queue_mutex_ = "app" /\ pc["app"] = FlushLabel("app")
    /\ message_queue_ # <<>> /\ client_.link = "down"
    /\ delivered # <<>> /\ Last(delivered).flush


\* C12: when a connect() that established a session is about to return true,
\* the offline queue is empty unless a publish of its flush failed, whatever
\* publish() calls other threads interleave with it.
C12_ConnectTrueQueueEmpty ==
    (pc["app"] = "connect_return" /\ app_ret = "true" /\ attempts # <<>>)
        => (message_queue_ = <<>> \/ flush_failed)

\* C13: a measurement of a broker that succeeds and updates its metrics
\* leaves the broker's record available, with the score its metrics give,
\* also when the record was marked unavailable before.
C13_Step ==
    (pc["mon"] = "measure" /\ pc'["mon"] = "ss_cur")
        => LET b == Deref(brokers_', Head(mon_uris))
           IN  /\ b.is_available
               /\ b.score = update_score([b EXCEPT !.is_available = TRUE],
                                         WeightsOf(category_)).score

C13_ProbeRestoresAvailability == [][C13_Step]_vars

\* C14: in every registry state reached by add, remove, update_metrics,
\* mark_unavailable and mark_available, every record has a score between 0
\* and 1 (0 and 10000 ten-thousandths), and every unavailable record has
\* score 0.
C14_ScoreRange ==
    \A k \in 1..Len(brokers_) :
        /\ 0 <= brokers_[k].score /\ brokers_[k].score <= 10000
        /\ ~brokers_[k].is_available => brokers_[k].score = 0

\* A registry holding a record with a positive score next to an unavailable
\* record whose metrics were measured.
C14_Witness ==
    \E j, k \in 1..Len(brokers_) :
        /\ brokers_[j].score > 0
        /\ ~brokers_[k].is_available /\ brokers_[k].latency = 10

\* C15: find_best_broker returns nothing exactly when no record is
\* available; otherwise it returns an available record whose score is
\* maximal among the available records, the earliest-registered of those.
C15_BestIsFirstMaximal ==
    LET best == find_best_broker(brokers_)
        avail == {k \in 1..Len(brokers_) : brokers_[k].is_available}
    IN  /\ best = 0 <=> avail = {}
        /\ best # 0 =>
              /\ best \in avail
              /\ \A k \in avail : brokers_[k].score <= brokers_[best].score
              /\ \A k \in avail :
                    brokers_[k].score = brokers_[best].score => best <= k

\* Three records: an unavailable one with measured metrics first, then two
\* available ones of equal positive score; the first of the two is the best.
C15_Witness ==
    /\ Len(brokers_) = 3
    /\ ~brokers_[1].is_available /\ brokers_[1].latency = 10
    /\ brokers_[2].is_available /\ brokers_[3].is_available
    /\ brokers_[2].score = brokers_[3].score /\ brokers_[2].score > 0
    /\ find_best_broker(brokers_) = 2

\* The score the specification gives for a category and the metrics
\* (latency in ms, bandwidth in kB/s, connections), in ten-thousandths:
\* w_l*L + w_b*B + w_c*C with L = max(0, 1 - latency/100), B = min(1,
\* bandwidth/1000 kB/s), C = max(0, 1 - connections/100), each 0 when its
\* metric is not positive, and the weights in tenths.
C16_Score(category, latency, bandwidth, connections) ==
    LET w == IF category = "camera" THEN <<2, 6, 2>>
             ELSE IF category = "rfid" THEN <<3, 2, 5>>
             ELSE <<6, 2, 2>>
        L == IF latency > 0 THEN Max(0, 1000 - 10 * latency) ELSE 0
        B == IF bandwidth > 0 THEN Min(1000, bandwidth) ELSE 0
        C == IF connections > 0 THEN Max(0, 1000 - 10 * connections) ELSE 0
    IN  w[1] * L + w[2] * B + w[3] * C

\* C16: a step that changes the metrics of a record (update_metrics) leaves an
\* available record with the score w_l*L + w_b*B + w_c*C of its new metrics
\* under the registry's category, the sensor weights for an unknown category;
\* under category camera the metrics 10 ms, 2000000 B/s, 10 connections score
\* 0.96.
C16_Step ==
    \A j \in 1..Len(brokers_), k \in 1..Len(brokers_') :
        LET old == brokers_[j]
            new == brokers_'[k]
        IN  (/\ old.uri = new.uri
             /\ <<old.latency, old.bandwidth, old.connection_count>>
                    # <<new.latency, new.bandwidth, new.connection_count>>
             /\ new.is_available)
                => new.score = C16_Score(category_, new.latency, new.bandwidth,
                                         new.connection_count)

C16_Example ==
    \A k \in 1..Len(brokers_) :
        (/\ category_ = "camera" /\ brokers_[k].is_available
         /\ brokers_[k].latency = 10 /\ brokers_[k].bandwidth = 2000
         /\ brokers_[k].connection_count = 10)
            => brokers_[k].score = 9600

C17_CurrentIsActive ==
    (is_connected_ /\ connection_mutex_ = "none")
        => get_current_broker_uri(brokers_, current_broker_index_) = client_.uri

\* C18: when disconnect() returns, is_connected_ and is_connecting_ are false
\* and the manager holds no client; and no step of disconnect() changes the
\* registry or the offline queue.
C18_Step ==
    /\ (pc["app"] = "disconnect_destroy" /\ pc'["app"] = "idle")
          => (~is_connected_' /\ ~is_connecting_' /\ client_' = NoClient)
    /\ (pc["app"] = "disconnect_destroy" \/ pc'["app"] = "disconnect_destroy")
          => UNCHANGED <<brokers_, current_broker_index_, category_>>
    /\ (pc'["app"] # pc["app"]
            /\ (pc["app"] = "disconnect_destroy" \/ pc'["app"] = "disconnect_destroy"))
          => UNCHANGED message_queue_

C18_DisconnectPostcondition == [][C18_Step]_vars

\* C19: connect() called while the manager is connected or connecting takes
\* the early return: its steps make no connection attempt, leave the client,
\* the registry and the queue as they are, and it returns the value
\* is_connected_ has when the return statement reads it.
C19_Step ==
    /\ (pc["app"] = "idle" /\ pc'["app"] \in {"connect_try", "connect_return"})
          => ~(is_connected_ \/ is_connecting_)
    /\ (pc["app"] = "idle" /\ pc'["app"] = "connect_early")
          => /\ is_connected_ \/ is_connecting_
             /\ UNCHANGED <<client_, brokers_, current_broker_index_,
                            message_queue_, attempts, flag_vars>>
    /\ (pc["app"] = "connect_early" /\ pc'["app"] # "connect_early" /\ ~crashed')
          => /\ pc'["app"] = "connect_return"
             /\ app_ret' = IF is_connected_ THEN "true" ELSE "false"
             /\ UNCHANGED <<client_, brokers_, current_broker_index_,
                            message_queue_, attempts, flag_vars>>
    /\ (pc["app"] = "connect_return" /\ pc'["app"] = "idle")
          => UNCHANGED <<client_, brokers_, current_broker_index_,
                         message_queue_, flag_vars>>

C20_Step ==
    \A op \in Requests :
        /\ (pc["app"] = "idle"
                /\ pc'["app"] \in {RequestForwardLabel(op), RequestReturnLabel(op)})
              => /\ UNCHANGED <<flag_vars, client_vars, registry_vars,
                                message_queue_>>
                 /\ IF is_connected_
                        THEN pc'["app"] = RequestForwardLabel(op)
                        ELSE /\ pc'["app"] = RequestReturnLabel(op)
                             /\ app_ret' = "not_connected"
        /\ (pc["app"] = RequestForwardLabel(op)
                /\ pc'["app"] = RequestReturnLabel(op))
              => /\ client_ # NoClient
                 /\ app_ret' \in {"token", "client_error"}
                 /\ app_ret' = "token" <=> client_.link = "up"
                 /\ UNCHANGED <<flag_vars, client_vars, registry_vars,
                                message_queue_>>
        /\ (pc["app"] = RequestReturnLabel(op) /\ pc'["app"] = "idle")
              => UNCHANGED <<flag_vars, client_vars, registry_vars,
                             message_queue_>>

C20_RequestsNeedConnection == [][C20_Step]_vars

\* unsubscribe() has failed with the not-connected error on a manager that
\* holds a client.
C20_Witness ==
    /\ pc["app"] = "unsubscribe_return" /\ app_ret = "not_connected"
    /\ ~is_connected_ /\ client_ # NoClient

\* C21: in every registry state reached by add, remove, clear and
\* set_current (set_brokers is clear followed by adds), the URIs of the
\* records are pairwise distinct, and whenever the registry is non-empty the
\* current index is in range, so that get_current_broker returns a record,
\* the only current one.
C21_RegistryWellFormed ==
    /\ \A j, k \in 1..Len(brokers_) :
          brokers_[j].uri = brokers_[k].uri => j = k
    /\ Len(brokers_) > 0 =>
          /\ 0 <= current_broker_index_ /\ current_broker_index_ < Len(brokers_)
          /\ get_current_broker(brokers_, current_broker_index_) # 0
          /\ Cardinality({k \in 1..Len(brokers_) :
                 brokers_[k].uri = get_current_broker_uri(brokers_,
                                                          current_broker_index_)}) = 1

\* A registry of two records whose current record was chosen by
\* set_current_broker and is its last one.
C21_Witness ==
    /\ get_broker_uris(brokers_) = <<"C", "A">>
    /\ current_broker_index_ = 1

\* C22: remove_broker of an absent URI changes nothing.
C22_AbsentNoop ==
    \A uri \in URIs :
        IndexOfUri(brokers_, uri) = {}
            => remove_broker(brokers_, current_broker_index_, uri)
                   = Registry(brokers_, current_broker_index_)

\* C22: a remove_broker step that removes one record (position k) keeps the
\* other records
\* in order; when the removed record was not the current one the current
\* broker's URI is unchanged, the index moving left by one when the removed
\* record preceded it; when it was the current one and records remain, the
\* index stays in range and the record that followed becomes current, or the
\* last record when the removed one was last.
C22_Step ==
    (RegRemoveBroker /\ Len(brokers_') = Len(brokers_) - 1)
        => \E k \in 1..Len(brokers_) :
              /\ brokers_' = Erase(brokers_, k)
              /\ IF k - 1 # current_broker_index_
                     THEN /\ get_current_broker_uri(brokers_', current_broker_index_')
                               = get_current_broker_uri(brokers_, current_broker_index_)
                          /\ current_broker_index_' =
                                 IF k - 1 < current_broker_index_
                                     THEN current_broker_index_ - 1
                                     ELSE current_broker_index_
                     ELSE Len(brokers_') > 0 =>
                            /\ current_broker_index_' < Len(brokers_')
                            /\ get_current_broker_uri(brokers_', current_broker_index_')
                                  = IF k < Len(brokers_) THEN brokers_[k + 1].uri
                                    ELSE brokers_[k - 1].uri

C22_RemoveReanchors == []C22_AbsentNoop /\ [][C22_Step]_vars

\* Three brokers were registered, the last made current, and the middle one
\* removed: the current record is still the last, at index 1.
C22_Witness ==
    /\ get_broker_uris(brokers_) = <<"A", "C">>
    /\ current_broker_index_ = 1
    /\ brokers_[1].latency = 50 /\ ~brokers_[2].is_available

\* The registry after add_broker(uri) followed by remove_broker(uri).
AddThenRemove(bs, idx, uri) ==
    LET added == add_broker(bs, idx, uri)
    IN  remove_broker(added.brokers, added.index, uri)

\* C23 as stated: add_broker(u) followed by remove_broker(u) leaves the
\* registry unchanged for every registry state and every URI u.
C23_AddRemoveAnyUri ==
    \A uri \in URIs :
        AddThenRemove(brokers_, current_broker_index_, uri)
            = Registry(brokers_, current_broker_index_)

\* C23 amended: add_broker(u) followed by remove_broker(u) leaves the registry
\* unchanged (records, order, current index, metrics, scores, availability)
\* for every registry state and every URI u that is not registered.
C23_AddRemoveAbsentUri ==
    \A uri \in URIs :
        IndexOfUri(brokers_, uri) = {}
            => AddThenRemove(brokers_, current_broker_index_, uri)
                   = Registry(brokers_, current_broker_index_)

\* A registry of two measured records, the first current and the second
\* unavailable, with a URI that is not registered.
C23_Witness ==
    /\ Len(brokers_) = 2 /\ current_broker_index_ = 0
    /\ brokers_[1].score > 0 /\ ~brokers_[2].is_available
    /\ \E uri \in URIs : IndexOfUri(brokers_, uri) = {}

\* A list without the later occurrences of its repeated elements.
RECURSIVE C24_Dedup(_)
C24_Dedup(uris) ==
    IF uris = <<>> THEN <<>>
    ELSE LET kept == C24_Dedup(SubSeq(uris, 1, Len(uris) - 1))
             newest == uris[Len(uris)]
         IN  IF \E i \in 1..Len(kept) : kept[i] = newest
                 THEN kept ELSE Append(kept, newest)

\* C24: set_brokers(L) on any registry state gives a registry whose URIs are
\* L with later duplicates dropped, in L's order, whose current broker is the
\* first element of L.
C24_SetBrokersList ==
    \A uris \in SetBrokersLists :
        LET r == set_brokers(brokers_, current_broker_index_, uris)
        IN  /\ get_broker_uris(r.brokers) = C24_Dedup(uris)
            /\ uris # <<>> =>
                  get_current_broker_uri(r.brokers, r.index) = uris[1]

\* A registry that held three measured records, the last current, is about to
\* be given a list with repeated elements.
C24_Witness ==
    /\ Len(brokers_) = 3 /\ current_broker_index_ = 2
    /\ brokers_[1].score > 0 /\ ~brokers_[2].is_available
    /\ get_broker_uris(set_brokers(brokers_, current_broker_index_,
                                   <<"B", "A", "B">>).brokers) = <<"B", "A">>

\* A worker thread of the monitor exists.
WorkerAlive == pc["mon"] # "stopped"

\* C25: when no call is under way and is_monitoring() is false there is no
\* worker, and the monitor can then be started.
C25_Stopped ==
    (pc["app"] = "idle" /\ ~running_)
        => (~WorkerAlive /\ ENABLED AppStartMonitoring)

\* C25: a worker is created only by start on a stopped monitor, where none
\* exists (so there is never more than one, and start on a running monitor
\* creates nothing); is_monitoring() becomes false only by stop on a running
\* monitor, which returns only when the worker has ended; stop on a stopped
\* monitor changes nothing.
C25_Step ==
    /\ (~WorkerAlive /\ WorkerAlive' /\ ~crashed')
          => (~running_ /\ running_' /\ ~should_stop_' /\ pc["app"] = "idle")
    /\ (~running_ /\ running_') => (~WorkerAlive /\ WorkerAlive')
    /\ (running_ /\ ~running_')
          => (should_stop_' /\ pc["app"] = "idle" /\ pc'["app"] = "stop_join")
    /\ (pc["app"] = "stop_join" /\ pc'["app"] = "idle")
          => (~WorkerAlive' /\ ~running_')
    /\ (~running_ /\ ~running_' /\ pc["app"] = "idle")
          => UNCHANGED <<should_stop_, mon_locals>>

C25_StartStop == []C25_Stopped /\ [][C25_Step]_vars

\* start_monitoring() and then stop_monitoring() have returned, the worker
\* having taken its measurements in between.
C25_Witness ==
    /\ pc["app"] = "idle" /\ ~running_ /\ should_stop_ /\ ~WorkerAlive
    /\ mon_ticks = MaxTicks

\* C26: while a swap or reconnect is under way on the monitor or the callback
\* thread, as in every other state, is_connected_ = true implies that the
\* manager holds a client.
C26_ConnectedHasClient ==
    (is_connected_ /\ connection_mutex_ \in {"mon", "cb"}) => client_ # NoClient

\* C27: a swap or reconnect that gives up after every attempted broker failed
\* returns with is_connected_ false.
C27_Step ==
    \A t \in {"cb", "mon"} :
        (pc[t] = "handle_failure" /\ pc'[t] = "switch_return")
            => ~is_connected_'

C27_FailedSwapDisconnected == [][C27_Step]_vars

\* C28: when a swap or reconnect gives up, every broker that was available
\* when it began has been attempted.
C28_Step ==
    \A t \in {"cb", "mon"} :
        (pc[t] = "handle_failure" /\ pc'[t] = "switch_return")
            => \A k \in 1..Len(snapshot0) :
                  \E j \in 1..Len(attempts) : attempts[j] = snapshot0[k]

C28_SwapTriesEveryBroker == [][C28_Step]_vars

\* C29: a swap or reconnect request issued while a connect or another swap is
\* in progress is a no-op.  A thread whose call of switch_to_best_broker()
\* waited for connection_mutex_ while is_connecting_ was true leaves the
\* first line of the function only to return: it destroys no client and
\* starts no connection attempt, also once the attempt in progress is over.
C29_Step ==
    \A t \in {"cb", "mon"} :
        (t \in overlapped /\ pc[t] = "switch_enter"
             /\ pc'[t] # "switch_enter" /\ ~crashed')
            => /\ pc'[t] = "switch_return"
               /\ client_' = client_
               /\ is_connecting_' = is_connecting_

C29_OverlappingRequestIsNoop == [][C29_Step]_vars

\* C30: an idle manager (connect() never called, or not called since the
\* last disconnect() returned) leaves the idle state only through connect():
\* while it is idle it has no client and no connection attempt is in
\* progress, whatever the monitor suggests and however late a
\* connection_lost callback runs.
C30_IdleUntilConnect ==
    manager_idle => (client_ = NoClient /\ ~is_connecting_)

\* C31: on connection_lost the manager first sets is_connected_ to false,
\* then invokes the user's callback exactly once, and only then starts the
\* reconnect: the callback thread enters connection_lost() with the flag
\* cleared, leaves the user callback only for the call of
\* switch_to_best_broker(), reaches that call only from the user callback,
\* and takes connection_mutex_ (the start of the attempt) only from there.
C31_Step ==
    /\ (pc["cb"] # "lost_callback" /\ pc'["cb"] = "lost_callback")
           => (pc["cb"] = "idle" /\ ~is_connected_'
                 /\ connection_mutex_' # "cb")
    /\ (pc["cb"] = "lost_callback" /\ pc'["cb"] # "lost_callback" /\ ~crashed')
           => (pc'["cb"] = "switch_enter"
                 /\ client_' = client_ /\ attempts' = attempts
                 /\ connection_mutex_' = connection_mutex_)
    /\ (pc["cb"] # "switch_enter" /\ pc'["cb"] = "switch_enter")
           => pc["cb"] = "lost_callback"
    /\ (connection_mutex_ # "cb" /\ connection_mutex_' = "cb")
           => pc["cb"] = "switch_enter"

C31_LostThenCallbackThenSwap == [][C31_Step]_vars

\* The reconnect of a connection_lost event is under way: the callback thread
\* has passed the user callback and is about to try a broker.
C31_Witness ==
    /\ pc["cb"] = "switch_try"
    /\ connection_mutex_ = "cb"
    /\ ~is_connected_
    /\ client_ = NoClient

\* C32: every change of the connection state (is_connected_, is_connecting_
\* and the client slot) is made under connection_mutex_: a step that changes
\* one of the flags, or that fills, empties or re-targets the client slot,
\* is taken while some thread holds the mutex (before or after the step).
C32_Step ==
    (\/ is_connected_' # is_connected_
     \/ is_connecting_' # is_connecting_
     \/ client_'.uri # client_.uri
     \/ (client_' = NoClient) # (client_ = NoClient))
        => (connection_mutex_ # "none" \/ connection_mutex_' # "none")

C32_StateChangesUnderMutex == [][C32_Step]_vars

\* C33, first part: a thread other than the application's (the callback
\* thread in connection_lost, the monitor in a swap) does not hold
\* connection_mutex_ while it blocks in try_connect_to_broker().
C33_ConnectStep ==
    \A t \in {"cb", "mon"} :
        (pc[t] = "switch_try" /\ Len(attempts') > Len(attempts))
            => connection_mutex_ # t

\* C33, second part: the publish of a queued message to the client is not
\* made under queue_mutex_.
C33_PublishStep ==
    (Len(delivered') > Len(delivered) /\ delivered'[Len(delivered')].flush)
        => queue_mutex_' = "none"

\* C33: apart from connection_mutex_ during an explicit connect() or
\* disconnect(), no mutex is held while a thread blocks on an MQTT call.
C33_NoLockAcrossMqttCall == [][C33_ConnectStep /\ C33_PublishStep]_vars

\* ------------------------------------------------------- the three mutexes
\*
\* The functions of the manager and of the monitor, reduced to the lock and
\* unlock operations they perform, in program order.  In the lock-level
\* specification a thread's pc is a record: the mutexes it holds and the
\* operations it still has to perform in the call it is in.

Mutexes == {"connection_mutex_", "mutex_", "queue_mutex_"}

\* The most brokers a connect loop or a chain of handle_connection_failure
\* calls goes through.
LockBrokers == 2

\* A lock_guard on m around the operations of body.
Under(m, body) == << <<"lock", m>> >> \o body \o << <<"unlock", m>> >>

\* Any method of BrokerListManager: a lock_guard on its mutex_, no call
\* out of the class.
registry_call == Under("mutex_", <<>>)

\* resend_queued_messages(), add_message_to_queue() and
\* get_queued_message_count(): a lock_guard on queue_mutex_; the publishes
\* of the flush take no mutex.
queue_call == Under("queue_mutex_", <<>>)

\* After a successful try_connect_to_broker(): set_current_broker() and
\* resend_queued_messages().
on_success_locks == registry_call \o queue_call

\* The loop of connect(), lines 86-108, over n brokers: a success ends it, a
\* failure calls mark_broker_unavailable().
RECURSIVE connect_loop_locks(_)
connect_loop_locks(n) ==
    IF n = 0 THEN {<<>>}
    ELSE {on_success_locks}
             \cup {registry_call \o p : p \in connect_loop_locks(n - 1)}

\* connect(): the early return; else get_all_brokers() and the loop.
connect_locks ==
    {Under("connection_mutex_", <<>>)}
        \cup {Under("connection_mutex_", registry_call \o p) :
                  p \in UNION {connect_loop_locks(n) : n \in 0..LockBrokers}}

\* handle_connection_failure(): mark_broker_unavailable(),
\* get_all_brokers(), then nothing, or a try that succeeds, or a try that
\* fails and the recursive call.
RECURSIVE handle_connection_failure_locks(_)
handle_connection_failure_locks(n) ==
    LET first == registry_call \o registry_call
    IN  IF n = 0 THEN {first}
        ELSE {first, first \o on_success_locks}
                 \cup {first \o p : p \in handle_connection_failure_locks(n - 1)}

\* switch_to_best_broker(): the guard's return; else get_all_brokers(), then
\* nothing, or a try that succeeds, or handle_connection_failure().
switch_locks ==
    {Under("connection_mutex_", <<>>),
     Under("connection_mutex_", registry_call),
     Under("connection_mutex_", registry_call \o on_success_locks)}
        \cup {Under("connection_mutex_", registry_call \o p) :
                  p \in handle_connection_failure_locks(LockBrokers)}

\* should_switch_broker(): get_current_broker() and find_best_broker().
should_switch_locks == registry_call \o registry_call

\* on_broker_switch(): should_switch_broker(), then switch_to_best_broker()
\* when it answered true.
on_broker_switch_locks ==
    {should_switch_locks} \cup {should_switch_locks \o p : p \in switch_locks}

\* on_metrics_updated(): should_switch_broker(), then find_best_broker() and
\* on_broker_switch() when it answered true.
on_metrics_updated_locks ==
    {should_switch_locks, should_switch_locks \o registry_call}
        \cup {should_switch_locks \o registry_call \o p :
                  p \in on_broker_switch_locks}

\* measure_latency(), measure_bandwidth() and check_connection_count(): a
\* failed probe calls mark_broker_unavailable() or nothing; a successful one
\* get_all_brokers(), update_broker_metrics() and the callback.
measure_locks ==
    {<<>>, registry_call, registry_call \o registry_call}
        \cup {registry_call \o registry_call \o p : p \in on_metrics_updated_locks}

\* One round of monitor_loop() for one broker: get_broker_uris() and the
\* measurement.
monitor_locks == {registry_call \o p : p \in measure_locks}

\* A publish that connects before it queues, under queue_mutex_.
publish_locks_connects_under_queue ==
    {Under("queue_mutex_", p) : p \in connect_locks}

\* publish(): forwarded to the client, or add_message_to_queue().
publish_locks == {<<>>, queue_call}

\* What each thread calls: the application connect(), disconnect(), the
\* registry edits and get_queued_message_count(); the publisher publish();
\* the client's callback thread connection_lost(); the monitor its loop.
LockPaths(t) ==
    IF t = "app" THEN connect_locks \cup {Under("connection_mutex_", <<>>)}
                          \cup {registry_call, queue_call}
    ELSE IF t = "pub" THEN publish_locks
    ELSE IF t = "cb" THEN switch_locks
    ELSE monitor_locks

Released == [held |-> {}, todo |-> <<>>]

InitLocks == InitState(<<>>, "sensor", [t \in Threads |-> Released])

Holder(m) == {t \in Threads : m \in pc[t].held}

HolderName(m, position) ==
    IF \E t \in Threads : m \in position[t].held
        THEN CHOOSE t \in Threads : m \in position[t].held
        ELSE "none"

\* The thread's next operation is a lock of m.
Wants(t, m) == pc[t].todo # <<>> /\ Head(pc[t].todo) = <<"lock", m>>

LockFrame ==
    /\ connection_mutex_' = HolderName("connection_mutex_", pc')
    /\ queue_mutex_' = HolderName("queue_mutex_", pc')
    /\ UNCHANGED <<registry_vars, client_vars, flag_vars, message_queue_,
                   swap_locals, app_locals, pub_locals, env_vars, delivered,
                   history_vars>>

\* A thread that is in no call enters one.
LockCall ==
    \E t \in Threads :
        /\ pc[t] = Released
        /\ \E p \in LockPaths(t) \ {<<>>} :
               pc' = [pc EXCEPT ![t].todo = p]
        /\ LockFrame

\* std::mutex::lock(): the thread goes on when nobody holds the mutex, itself
\* included.
LockAcquire ==
    \E t \in Threads, m \in Mutexes :
        /\ Wants(t, m)
        /\ Holder(m) = {}
        /\ pc' = [pc EXCEPT ![t] = [held |-> pc[t].held \cup {m},
                                    todo |-> Tail(pc[t].todo)]]
        /\ LockFrame

\* The end of the lock_guard's scope.
LockRelease ==
    \E t \in Threads, m \in Mutexes :
        /\ pc[t].todo # <<>>
        /\ Head(pc[t].todo) = <<"unlock", m>>
        /\ pc' = [pc EXCEPT ![t] = [held |-> pc[t].held \ {m},
                                    todo |-> Tail(pc[t].todo)]]
        /\ LockFrame

Rank(m) == IF m = "connection_mutex_" THEN 1 ELSE IF m = "mutex_" THEN 2 ELSE 3

\* A non-empty set of threads each of which waits for a mutex held inside
\* the set.
Deadlocked(S) ==
    /\ S # {}
    /\ \A t \in S : \E m \in Mutexes :
           Wants(t, m) /\ Holder(m) # {} /\ Holder(m) \subseteq S

\* C34: the three mutexes are only nested in the order connection, registry,
\* queue: a thread that waits for (or takes) a mutex holds only mutexes
\* that come before it in that order, each mutex has at most one holder, and
\* no set of threads waits in a cycle.
C34_LockOrder ==
    /\ \A t \in Threads, m \in Mutexes :
           Wants(t, m) => \A h \in pc[t].held : Rank(h) < Rank(m)
    /\ \A m \in Mutexes : Cardinality(Holder(m)) <= 1
    /\ \A S \in SUBSET Threads : ~Deadlocked(S)

\* The application holds connection_mutex_ and, inside it, queue_mutex_ (the
\* flush of connect()), while the callback thread waits for the first and
\* the publisher for the second.
C34_Witness ==
    /\ pc["app"].held = {"connection_mutex_", "queue_mutex_"}
    /\ Wants("cb", "connection_mutex_")
    /\ Wants("pub", "queue_mutex_")
    /\ Wants("mon", "mutex_")
    /\ connection_mutex_ = "app" /\ queue_mutex_ = "app"

\* C35: the publisher's messages reach the clients in issue order with
\* respect to the offline queue: a message that went through the queue (it
\* is handed over by a flush) is never handed to a client after a message
\* the same thread issued later (payloads number the publishes in issue
\* order).
C35_QueuedNotOvertaken ==
    \A i, j \in 1..Len(delivered) :
        (i < j /\ delivered[j].flush)
            => delivered[i].msg.payload < delivered[j].msg.payload

\* C36: after every successful metric update the monitor's thread evaluates
\* should_switch_broker(); a switch request (on_broker_switch with the URI of
\* find_best_broker()) reaches the manager exactly when that evaluation
\* answered true; when it answered false the thread goes back to measuring
\* and the step leaves the client and the connection flags untouched.
C36_Step ==
    /\ (pc["mon"] = "measure" /\ brokers_' # brokers_ /\ pc'["mon"] # "measure")
           => (pc'["mon"] = "ss_cur" /\ ss_call' = 1)
    /\ (pc["mon"] = "ss_test" /\ ss_call = 1 /\ pc'["mon"] # "ss_test"
            /\ ~crashed')
           => IF ss_result' = "true"
                  THEN pc'["mon"] = "omu_best"
                  ELSE /\ pc'["mon"] = "measure"
                       /\ UNCHANGED <<client_vars, flag_vars, connection_mutex_>>
    /\ (pc["mon"] = "omu_best" /\ pc'["mon"] # "omu_best" /\ ~crashed')
           => (ss_call' = 2 /\ pc'["mon"] = "ss_cur"
                 /\ find_best_broker(brokers_) # 0)
    /\ (ss_call # 2 /\ ss_call' = 2)
           => (pc["mon"] = "omu_best" /\ ss_result = "true")

C36_SwitchRequestIffShouldSwitch == [][C36_Step]_vars

\* A step of the monitor that measures the broker at the head of mon_uris
\* while that broker does not answer.
C37_FailedProbe ==
    /\ pc["mon"] = "measure"
    /\ mon_uris # <<>>
    /\ mon_uris' = Tail(mon_uris)
    /\ ~should_stop_
    /\ Head(mon_uris) \notin reachable

\* C37: a failed latency or bandwidth probe marks the broker unavailable with
\* score 0 and leaves its stored metrics as they were; a failed
\* connection-count check leaves the broker's availability unchanged.  No
\* other record changes.
C37_Step ==
    C37_FailedProbe
        => /\ Len(brokers_') = Len(brokers_)
           /\ \A i \in 1..Len(brokers_) :
                  IF brokers_[i].uri # Head(mon_uris)
                      THEN brokers_'[i] = brokers_[i]
                  ELSE IF mon_class \in {"latency", "bandwidth"}
                      THEN brokers_'[i] = [brokers_[i] EXCEPT !.is_available = FALSE,
                                                              !.score = 0]
                      ELSE brokers_'[i].is_available = brokers_[i].is_available

C37_FailedProbeEffect == [][C37_Step]_vars

\* A probe (no connection was ever attempted) has marked a broker
\* unavailable: its score is 0 and the latency measured earlier is still
\* stored.
C37_Witness ==
    /\ manager_idle /\ client_ = NoClient /\ ~is_connecting_
    /\ \E i \in 1..Len(brokers_) :
           /\ ~brokers_[i].is_available
           /\ brokers_[i].score = 0
           /\ brokers_[i].latency > 0

\* C38: a successful measurement of one metric (the monitor's step from the
\* measurement to on_metrics_updated) changes, in the record of the probed
\* broker, only that metric and the score derived from the three; the other
\* two metrics and the availability keep their values and every other
\* record is unchanged.
C38_Step ==
    (pc["mon"] = "measure" /\ pc'["mon"] = "ss_cur")
        => /\ Len(brokers_') = Len(brokers_)
           /\ \A i \in 1..Len(brokers_) :
                  LET old == brokers_[i]
                      new == brokers_'[i]
                  IN  IF old.uri # Head(mon_uris)
                          THEN new = old
                          ELSE /\ new.uri = old.uri
                               /\ new.is_available = old.is_available
                               /\ mon_class # "latency"
                                      => new.latency = old.latency
                               /\ mon_class # "bandwidth"
                                      => new.bandwidth = old.bandwidth
                               /\ mon_class # "connection"
                                      => new.connection_count = old.connection_count
                               /\ new = update_score(new, WeightsOf(category_))

C38_MeasurementFrame == [][C38_Step]_vars

\* A bandwidth measurement has just been stored for a broker whose latency
\* was measured before: both values are in the record.
C38_Witness ==
    /\ pc["mon"] = "ss_cur"
    /\ ss_call = 1
    /\ mon_class = "bandwidth"
    /\ \E i \in 1..Len(brokers_) :
           /\ brokers_[i].latency > 0
           /\ brokers_[i].bandwidth > 0
           /\ brokers_[i].connection_count = 0

\* C39: once stop() returned (no call under way, is_monitoring() false) the
\* worker has exited and holds nothing.
C39_Returned ==
    (pc["app"] = "idle" /\ ~running_)
        => (pc["mon"] = "stopped" /\ connection_mutex_ # "mon"
              /\ queue_mutex_ # "mon")

\* C39: the loop tests should_stop_ before every per-broker measurement: with
\* the flag set, the worker's step at the head of a measurement starts no
\* measurement (no registry change, no callback into the manager; it skips
\* the broker or moves to the next class or to the sleep), and its step after
\* the sleep leaves the loop; a worker that has exited changes nothing of
\* the monitor's until the next start.
C39_Step ==
    /\ (should_stop_ /\ pc["mon"] = "measure"
            /\ (mon_uris' # mon_uris \/ mon_class' # mon_class
                    \/ pc'["mon"] # "measure"))
           => (brokers_' = brokers_ /\ ss_call' = ss_call
                 /\ pc'["mon"] \in {"measure", "sleep"})
    /\ (should_stop_ /\ pc["mon"] = "sleep" /\ pc'["mon"] # "sleep" /\ ~crashed')
           => pc'["mon"] = "stopped"
    /\ (pc["mon"] = "stopped" /\ pc'["mon"] = "stopped")
           => UNCHANGED <<mon_locals, ss_locals>>
    /\ (pc["mon"] = "stopped" /\ pc'["mon"] # "stopped" /\ ~crashed')
           => (running_' /\ ~should_stop_' /\ pc'["mon"] = "sleep")

C39_StopIsPrompt == []C39_Returned /\ [][C39_Step]_vars

\* stop() was requested during a round: the bandwidth class has passed
\* without a measurement of brokers that answer, and the connection class is
\* being skipped in the same way.
C39_Witness ==
    /\ should_stop_
    /\ pc["mon"] = "measure"
    /\ mon_class = "connection"
    /\ mon_uris # <<>>
    /\ Len(brokers_) > 0
    /\ \A i \in 1..Len(brokers_) :
           /\ brokers_[i].uri \in reachable
           /\ brokers_[i].is_available
           /\ brokers_[i].latency > 0
           /\ brokers_[i].bandwidth = 0

\* C40: within one invocation of connect() or switch_to_best_broker() (the
\* brokers it tried are in attempts, those available when it began in
\* snapshot0) no broker is attempted twice and there are at most as many
\* attempts as brokers were available at the start.
C40_Attempts ==
    /\ Len(attempts) <= Len(snapshot0)
    /\ \A i, j \in 1..Len(attempts) : attempts[i] = attempts[j] => i = j

\* C40: the invocation leaves is_connecting_ false when it returns.
C40_Step ==
    \A t \in {"app", "cb", "mon"} :
        (connection_mutex_ = t /\ connection_mutex_' = "none")
            => ~is_connecting_'

C40_BoundedAttempts == []C40_Attempts /\ [][C40_Step]_vars

\* ------------------------------------------------------------ specification

\* The session manager driven by the application's control thread and by
\* the client's callbacks, and the brokers going down and up.
SessionNext ==
    \/ AppSetBrokers
    \/ AppSetBrokersAdd
    \/ AppConnect
    \/ AppConnectEarly
    \/ AppConnectTry
    \/ AppConnectReturn
    \/ AppDisconnect
    \/ AppDisconnectDestroy
    \/ Flush("app")
    \/ CbConnected
    \/ CbConnectionLost
    \/ CbUserCallback
    \/ SwitchEnter("cb")
    \/ SwitchTry("cb")
    \/ HandleFailure("cb")
    \/ Flush("cb")
    \/ SwitchReturn("cb")
    \/ BrokerDown
    \/ BrokerUp

\* The publishing thread.
PubNext ==
    \/ PubCall
    \/ PubForward
    \/ PubEnqueue
    \/ PubReturn

\* Monitoring: start and stop, the worker's loop and the callbacks it runs.
MonNext ==
    \/ AppStartMonitoring
    \/ AppStopMonitoring
    \/ AppStopJoin
    \/ MonTick
    \/ MonNextClass
    \/ MonMeasure
    \/ SsCurrent
    \/ SsBest
    \/ SsTest
    \/ OmuBest
    \/ SwitchEnter("mon")
    \/ SwitchTry("mon")
    \/ HandleFailure("mon")
    \/ Flush("mon")
    \/ SwitchReturn("mon")

\* An application that publishes and never starts monitoring.
Next == SessionNext \/ PubNext

Spec == Init /\ [][Next]_vars

\* An application that monitors and does not publish.
NextMon == SessionNext \/ MonNext

SpecMon == Init /\ [][NextMon]_vars

\* The same application with two brokers.
InitTwo == InitFor(TwoBrokers)

SpecMonTwo == InitTwo /\ [][NextMon]_vars

\* What the threads do by themselves once an operation is under way; the
\* scheduler lets each of them run.
AppSteps ==
    \/ AppDisconnectDestroy
    \/ AppSetBrokers
    \/ AppSetBrokersAdd
    \/ AppConnectEarly
    \/ AppConnectTry
    \/ AppConnectReturn
    \/ Flush("app")

PubSteps == PubForward \/ PubEnqueue \/ PubReturn

CbSteps ==
    \/ CbConnected
    \/ CbConnectionLost
    \/ CbUserCallback
    \/ SwitchEnter("cb")
    \/ SwitchTry("cb")
    \/ HandleFailure("cb")
    \/ Flush("cb")
    \/ SwitchReturn("cb")

\* An application that keeps calling connect(); every thread keeps running.
\* Nothing obliges the application to publish or to disconnect, nor a broker
\* to go down or come back.
SpecRetry ==
    /\ Init
    /\ [][Next]_vars
    /\ WF_vars(AppSteps)
    /\ WF_vars(PubSteps)
    /\ WF_vars(CbSteps)
    /\ WF_vars(AppConnect)

\* The registry alone, driven by any sequence of its operations.
NextRegistry ==
    \/ RegAddBroker \/ RegRemoveBroker \/ RegClearBrokers
    \/ RegSetCurrentBroker \/ RegSetBrokers \/ RegUpdateMetrics
    \/ RegMarkUnavailable \/ RegMarkAvailable

SpecRegistry == InitRegistry /\ [][NextRegistry]_vars

\* The session manager with an application that also edits the broker list
\* between its calls.
NextEdit == SessionNext \/ AppAddBroker \/ AppRemoveBroker

SpecEdit == Init /\ [][NextEdit]_vars

\* The session manager with an application that also subscribes and
\* unsubscribes between its calls.
NextRequests ==
    \/ SessionNext
    \/ RequestCall("subscribe")
    \/ RequestForward("subscribe")
    \/ RequestReturn("subscribe")
    \/ RequestCall("unsubscribe")
    \/ RequestForward("unsubscribe")
    \/ RequestReturn("unsubscribe")

SpecRequests == Init /\ [][NextRequests]_vars

NextLocks ==
    \/ LockCall
    \/ LockAcquire
    \/ LockRelease

SpecLocks == InitLocks /\ [][NextLocks]_vars

====
